---------------------------- MODULE Spec2Model ----------------------------
(***************************************************************************)
(* utflite: UTF-8 decode/encode, validation and byte-offset navigation.    *)
(*                                                                         *)
(* A buffer is a sequence of bytes (0..255); C index i is element i + 1.   *)
(* A pointer into a buffer is the sequence of the bytes from the pointed   *)
(* position to the end of the allocation, so text + offset is              *)
(* Advance(text, offset).  Every function is an operator returning a       *)
(* record of its return value, its out-parameters and the set of C indices *)
(* it read; the actions apply the operators to the caller's state.         *)
(***************************************************************************)
EXTENDS Integers, Sequences, FiniteSets, TLC

VARIABLES
    text,          \* the caller's byte buffer
    offset,        \* the caller's cursor: the value returned by the last navigation call
    op,            \* the last call made: "init", "seek", "decode", "next_char", ...
    arg,           \* the offset argument of the last navigation call
    start,         \* the offset at which the current forward iteration began
    steps,         \* the number of next_char calls made in the current iteration
    length,        \* the length argument of the last decode call
    codepoint,     \* *codepoint after the last decode; the argument of the last encode
    bytes,         \* the return value of the last decode or encode
    reads,         \* the C indices of the buffer that the last call read
    buffer,        \* the 4-byte buffer handed to encode
    before,        \* the contents of buffer before the last encode
    valid,         \* the return value of the last validate
    error_offset,  \* *error_offset after the last validate (NoOffset: not written)
    result,        \* the return value of the last width, count or grapheme call
    frame          \* the locals of the call whose loop is running (NoFrame: none)

vars == <<text, offset, op, arg, start, steps, length, codepoint, bytes, reads,
          buffer, before, valid, error_offset, result, frame>>

---------------------------------------------------------------------------
(* Bounds of the model. *)

\* A text is a concatenation of at most MaxChunks sample byte sequences.
MaxChunks == 2

\* Codepoints are sampled every CpStride values, boundary values added.
CpStride == 4099

---------------------------------------------------------------------------
(* Program constants. *)

UTFLITE_REPLACEMENT_CHAR == 65533

UTFLITE_MAX_BYTES == 4

\* The null pointer: a value no pointer into a byte buffer equals.
NULL == <<-1>>

\* The value of an int out-parameter the callee did not write.
NoOffset == -1

\* No call is in progress.
NoFrame == <<>>

---------------------------------------------------------------------------
(* C arithmetic on unsigned values. *)

\* x >> k
Shr(x, k) == x \div (2 ^ k)

\* x & (2^k - 1)
Low(x, k) == x % (2 ^ k)

\* (char)x stored in a byte of the buffer, read back as unsigned char
ToByte(x) == x % 256

\* ptr[i] for a pointer ptr.  The code is never at an index outside the
\* allocation with the lengths the callers pass (the reads sets record every
\* index, so an over-read shows in them whatever value it yields).
ByteAt(ptr, i) == IF i >= 0 /\ i < Len(ptr) THEN ptr[i + 1] ELSE 0

\* text + offset
Advance(ptr, n) == IF n >= Len(ptr) THEN <<>> ELSE SubSeq(ptr, n + 1, Len(ptr))

\* Mutant: tests only the top bit, (byte & 0x80) == 0x80.
IsContinuationLoose(byte) == Shr(byte, 7) = 1

\* (byte & 0xC0) == 0x80
IsContinuation(byte) == Shr(byte, 6) = 2

---------------------------------------------------------------------------
(* utflite_decode *)

\* The sequence length the first byte declares; 0 for an invalid first byte.
SequenceLength(first) ==
    IF Shr(first, 5) = 6 THEN 2          \* (first & 0xE0) == 0xC0
    ELSE IF Shr(first, 4) = 14 THEN 3    \* (first & 0xF0) == 0xE0
    ELSE IF Shr(first, 3) = 30 THEN 4    \* (first & 0xF8) == 0xF0
    ELSE 0

\* The payload bits of the first byte: first & 0x1F, 0x0F, 0x07.
LeadBits(first, sequence_length) == Low(first, 7 - sequence_length)

\* for (i = 1; i < sequence_length; i++): the accumulated value, whether
\* every continuation byte matched, and the indices read.
RECURSIVE ReadContinuation(_, _, _, _, _)
ReadContinuation(ptr, sequence_length, i, cp, rd) ==
    IF i >= sequence_length
    THEN [ok |-> TRUE, cp |-> cp, reads |-> rd]
    ELSE LET byte == ByteAt(ptr, i) IN
         IF ~IsContinuation(byte)
         THEN [ok |-> FALSE, cp |-> cp, reads |-> rd \cup {i}]
         ELSE ReadContinuation(ptr, sequence_length, i + 1,
                               cp * 64 + Low(byte, 6), rd \cup {i})

\* Mutant: the 4-byte overlong check is missing.
IsOverlongNoFour(sequence_length, cp) ==
    \/ sequence_length = 2 /\ cp < \h80
    \/ sequence_length = 3 /\ cp < \h800

IsOverlong(sequence_length, cp) ==
    \/ sequence_length = 2 /\ cp < \h80
    \/ sequence_length = 3 /\ cp < \h800
    \/ sequence_length = 4 /\ cp < \h10000

\* Mutant: the upper end of the surrogate range is excluded.
IsSurrogateShort(cp) == cp >= \hD800 /\ cp < \hDFFF

IsSurrogate(cp) == cp >= \hD800 /\ cp <= \hDFFF

\* Mutant: the available length is not compared with the declared length.
TruncatedUnchecked(len, sequence_length) == FALSE

\* if (length < sequence_length): not enough bytes for the declared sequence
Truncated(len, sequence_length) == len < sequence_length

\* Mutant: a structural error reports no byte consumed.
DecodeErrorNoProgress(n, rd) ==
    [codepoint |-> UTFLITE_REPLACEMENT_CHAR,
     bytes |-> IF n = 1 THEN 0 ELSE n, reads |-> rd]

DecodeError(n, rd) ==
    [codepoint |-> UTFLITE_REPLACEMENT_CHAR, bytes |-> n, reads |-> rd]

utflite_decode(ptr, len) ==
    IF len <= 0 \/ ptr = NULL THEN DecodeError(1, {})
    ELSE LET first == ByteAt(ptr, 0) IN
    IF first < \h80 THEN [codepoint |-> first, bytes |-> 1, reads |-> {0}]
    ELSE LET sequence_length == SequenceLength(first) IN
    IF sequence_length = 0 THEN DecodeError(1, {0})
    ELSE IF Truncated(len, sequence_length) THEN DecodeError(1, {0})
    ELSE LET r == ReadContinuation(ptr, sequence_length, 1,
                                   LeadBits(first, sequence_length), {0}) IN
    IF ~r.ok THEN DecodeError(1, r.reads)
    ELSE IF IsOverlong(sequence_length, r.cp) THEN DecodeError(sequence_length, r.reads)
    ELSE IF IsSurrogate(r.cp) THEN DecodeError(sequence_length, r.reads)
    ELSE IF r.cp > \h10FFFF THEN DecodeError(sequence_length, r.reads)
    ELSE [codepoint |-> r.cp, bytes |-> sequence_length, reads |-> r.reads]

---------------------------------------------------------------------------
(* utflite_encode *)

\* buffer[i] = (char)value
Store(buf, i, value) == [buf EXCEPT ![i + 1] = ToByte(value)]

\* Two bytes: 110xxxxx 10xxxxxx
Encode2(cp, buf) ==
    Store(Store(buf, 0, \hC0 + Shr(cp, 6)),
          1, \h80 + Low(cp, 6))

\* Mutant: the middle byte is not masked with 0x3F.
Encode3Unmasked(cp, buf) ==
    Store(Store(Store(buf, 0, \hE0 + Shr(cp, 12)),
                1, \h80 + Shr(cp, 6)),
          2, \h80 + Low(cp, 6))

\* Three bytes: 1110xxxx 10xxxxxx 10xxxxxx
Encode3(cp, buf) ==
    Store(Store(Store(buf, 0, \hE0 + Shr(cp, 12)),
                1, \h80 + Low(Shr(cp, 6), 6)),
          2, \h80 + Low(cp, 6))

\* Four bytes: 11110xxx 10xxxxxx 10xxxxxx 10xxxxxx
Encode4(cp, buf) ==
    Store(Store(Store(Store(buf, 0, \hF0 + Shr(cp, 18)),
                      1, \h80 + Low(Shr(cp, 12), 6)),
                2, \h80 + Low(Shr(cp, 6), 6)),
          3, \h80 + Low(cp, 6))

utflite_encode(cp, buf) ==
    IF cp < \h80 THEN [bytes |-> 1, buffer |-> Store(buf, 0, cp)]
    ELSE IF cp < \h800 THEN [bytes |-> 2, buffer |-> Encode2(cp, buf)]
    ELSE IF cp < \h10000 THEN
        IF IsSurrogate(cp) THEN [bytes |-> 0, buffer |-> buf]
        ELSE [bytes |-> 3, buffer |-> Encode3(cp, buf)]
    ELSE IF cp <= \h10FFFF THEN [bytes |-> 4, buffer |-> Encode4(cp, buf)]
    ELSE [bytes |-> 0, buffer |-> buf]

---------------------------------------------------------------------------
(* String navigation *)

\* Mutant: no end-of-buffer test and no clamp to length.
utflite_next_char_unclamped(txt, len, off) ==
    LET d == utflite_decode(Advance(txt, off), len - off)
    IN [offset |-> off + d.bytes, reads |-> {off + i : i \in d.reads}]

utflite_next_char(txt, len, off) ==
    IF off >= len THEN [offset |-> len, reads |-> {}]
    ELSE LET d == utflite_decode(Advance(txt, off), len - off)
             next_offset == off + d.bytes
         IN [offset |-> IF next_offset > len THEN len ELSE next_offset,
             reads  |-> {off + i : i \in d.reads}]

\* while (pos > limit && ((unsigned char)text[pos] & 0xC0) == 0x80) pos--;
RECURSIVE ScanBack(_, _, _, _)
ScanBack(txt, pos, limit, rd) ==
    IF pos > limit
    THEN IF IsContinuation(ByteAt(txt, pos))
         THEN ScanBack(txt, pos - 1, limit, rd \cup {pos})
         ELSE [offset |-> pos, reads |-> rd \cup {pos}]
    ELSE [offset |-> pos, reads |-> rd]

\* Mutant: the backward scan is bounded by the buffer start only.
utflite_prev_char_unbounded(txt, off) ==
    IF off <= 0 THEN [offset |-> 0, reads |-> {}]
    ELSE ScanBack(txt, off - 1, 0, {})

\* Mutant: the backward scan stops three bytes back.
utflite_prev_char_short(txt, off) ==
    IF off <= 0 THEN [offset |-> 0, reads |-> {}]
    ELSE LET pos == off - 1
             limit == IF off > 3 THEN off - 3 ELSE 0
         IN ScanBack(txt, pos, limit, {})

utflite_prev_char(txt, off) ==
    IF off <= 0 THEN [offset |-> 0, reads |-> {}]
    ELSE LET pos == off - 1
             limit == IF off > 4 THEN off - 4 ELSE 0
         IN ScanBack(txt, pos, limit, {})

---------------------------------------------------------------------------
(* utflite_validate *)

\* Mutant: every U+FFFD out of decode is taken for an error.
NotLiteralReplacementUnchecked(txt, len, off) == TRUE

\* The three bytes at text + off are not the literal encoding of U+FFFD:
\* first != 0xEF || length - offset < 3 || text[offset+1] != 0xBF ||
\* text[offset+2] != 0xBD, evaluated left to right.
NotLiteralReplacement(txt, len, off) ==
    \/ ByteAt(txt, off) # \hEF
    \/ len - off < 3
    \/ ByteAt(txt, off + 1) # \hBF
    \/ ByteAt(txt, off + 2) # \hBD

\* Mutant: the offset reported is the one after the rejected bytes.
RECURSIVE ValidateFromAfter(_, _, _)
ValidateFromAfter(txt, len, off) ==
    IF off < len
    THEN LET d == utflite_decode(Advance(txt, off), len - off) IN
         IF d.codepoint = UTFLITE_REPLACEMENT_CHAR
            /\ (\/ ByteAt(txt, off) # \hEF
                \/ len - off < 3
                \/ ByteAt(txt, off + 1) # \hBF
                \/ ByteAt(txt, off + 2) # \hBD)
         THEN [valid |-> 0, error_offset |-> off + d.bytes]
         ELSE ValidateFromAfter(txt, len, off + d.bytes)
    ELSE [valid |-> 1, error_offset |-> NoOffset]

RECURSIVE ValidateFrom(_, _, _)
ValidateFrom(txt, len, off) ==
    IF off < len
    THEN LET d == utflite_decode(Advance(txt, off), len - off) IN
         IF d.codepoint = UTFLITE_REPLACEMENT_CHAR
            /\ NotLiteralReplacement(txt, len, off)
         THEN [valid |-> 0, error_offset |-> off]
         ELSE ValidateFrom(txt, len, off + d.bytes)
    ELSE [valid |-> 1, error_offset |-> NoOffset]

utflite_validate(txt, len) == ValidateFrom(txt, len, 0)

---------------------------------------------------------------------------
(* The inputs. *)

Min(a, b) == IF a < b THEN a ELSE b

Max(a, b) == IF a > b THEN a ELSE b

\* Sample byte sequences: well-formed characters of every length with the
\* boundary values, and ill-formed sequences of every kind.
Chunks ==
    { <<\h41>>,                                            \* 1 byte
      <<\hC2, \h80>>, <<\hC3, \hA9>>, <<\hDF, \hBF>>,      \* 2 bytes: U+80, U+E9, U+7FF
      <<\hE0, \hA0, \h80>>, <<\hE4, \hB8, \hAD>>,          \* 3 bytes: U+800, U+4E2D
      <<\hEF, \hBF, \hBD>>, <<\hEF, \hBF, \hBF>>,          \*          U+FFFD, U+FFFF
      <<\hF0, \h90, \h80, \h80>>, <<\hF4, \h8F, \hBF, \hBF>>,  \* 4 bytes: U+10000, U+10FFFF
      <<\h80>>, <<\hBF, \h80, \hBF>>,                      \* bare continuation bytes
      <<\hFF>>,                                            \* invalid first byte
      <<\hC3>>, <<\hE4, \hB8>>, <<\hEF, \hBF>>,            \* truncated sequences
      <<\hF0, \h9F, \h98>>,
      <<\hC0, \h80>>, <<\hE0, \h9F, \hBF>>,                \* overlong
      <<\hF0, \h8F, \hBF, \hBF>>,
      <<\hED, \hA0, \h80>>,                                \* surrogate U+D800
      <<\hF4, \h90, \h80, \h80>> }                         \* U+110000

\* The concatenations of at most n chunks.
RECURSIVE TextsOf(_)
TextsOf(n) ==
    IF n = 0 THEN { <<>> }
    ELSE LET shorter == TextsOf(n - 1) IN
         shorter \cup { t \o c : t \in shorter, c \in Chunks }

Texts == TextsOf(MaxChunks)

\* Sample codepoint arguments: the boundary values of every encoded length,
\* the surrogate range, values above U+10FFFF up to the largest uint32_t, and
\* every CpStride-th value in between.
CodepointSamples ==
    { 0, \h41, \h7F, \h80, \hE9, \h7FF, \h800, \h4E2D, \hD7FF, \hD800, \hDBFF,
      \hDFFF, \hE000, \hFFFD, \hFFFF, \h10000, \h1F600, \h10FFFF, \h110000,
      \h1FFFFF, \h200000, \hFFFFFFF, \h7FFFFFFF }
    \cup { i * CpStride : i \in 0 .. (\h120000 \div CpStride) }

\* Contents of the caller's 4-byte buffer before encode is called.
BufferSamples ==
    { [i \in 1 .. UTFLITE_MAX_BYTES |-> 0],
      [i \in 1 .. UTFLITE_MAX_BYTES |-> \hAA],
      [i \in 1 .. UTFLITE_MAX_BYTES |-> \hFF] }

---------------------------------------------------------------------------
(* The state machine: a caller holding a buffer and a cursor. *)

\* What a call leaves of the previous calls' results: nothing (every result
\* is local to one call).
NoDecode_ == length' = 0 /\ codepoint' = 0 /\ bytes' = 0

NoValidate_ == valid' = 1 /\ error_offset' = NoOffset

NoResult_ == result' = 0 /\ frame' = NoFrame

Init ==
    /\ text \in Texts
    /\ offset = 0
    /\ op = "init"
    /\ arg = 0
    /\ start = 0
    /\ steps = 0
    /\ length = 0
    /\ codepoint = 0
    /\ bytes = 0
    /\ reads = {}
    /\ buffer = <<>>
    /\ before = <<>>
    /\ valid = 1
    /\ error_offset = NoOffset
    /\ result = 0
    /\ frame = NoFrame

\* The calls that leave a cursor to continue from.
CursorOps == {"init", "seek", "next_char", "prev_char"}

\* The caller places the cursor anywhere from before the start to past the end.
Seek ==
    \E o \in -1 .. Len(text) + 1 :
        /\ op = "init"
        /\ op' = "seek"
        /\ offset' = o
        /\ arg' = o
        /\ start' = o
        /\ steps' = 0
        /\ reads' = {}
        /\ NoDecode_ /\ NoValidate_ /\ NoResult_
        /\ UNCHANGED <<text, buffer, before>>

\* utflite_decode(text, len, &codepoint), or the same with a null pointer.
Decode ==
    \E len \in -1 .. Len(text), ptr \in {text, NULL} :
        LET d == utflite_decode(ptr, len) IN
        /\ op = "init"
        /\ op' = IF ptr = NULL THEN "decode_null" ELSE "decode"
        /\ length' = len
        /\ codepoint' = d.codepoint
        /\ bytes' = d.bytes
        /\ reads' = d.reads
        /\ offset' = 0 /\ arg' = 0 /\ start' = 0 /\ steps' = 0
        /\ NoValidate_ /\ NoResult_
        /\ UNCHANGED <<text, buffer, before>>

\* offset = utflite_next_char(text, length, offset), repeated until one call
\* has been made at the end of the buffer.
NextChar ==
    /\ op \in CursorOps
    /\ offset >= 0
    /\ steps <= Len(text)
    /\ ~(op = "next_char" /\ arg >= Len(text))
    /\ LET r == utflite_next_char(text, Len(text), offset) IN
        /\ op' = "next_char"
        /\ arg' = offset
        /\ offset' = r.offset
        /\ reads' = r.reads
        /\ steps' = steps + 1
        /\ NoDecode_ /\ NoValidate_ /\ NoResult_
        /\ UNCHANGED <<text, start, buffer, before>>

\* offset = utflite_prev_char(text, offset)
PrevChar ==
    /\ op \in CursorOps
    /\ offset <= Len(text)
    /\ LET r == utflite_prev_char(text, offset) IN
        /\ op' = "prev_char"
        /\ arg' = offset
        /\ offset' = r.offset
        /\ reads' = r.reads
        /\ start' = r.offset
        /\ steps' = 0
        /\ NoDecode_ /\ NoValidate_ /\ NoResult_
        /\ UNCHANGED <<text, buffer, before>>

\* valid = utflite_validate(text, length, &error_offset)
Validate ==
    LET r == utflite_validate(text, Len(text)) IN
    /\ op = "init"
    /\ op' = "validate"
    /\ valid' = r.valid
    /\ error_offset' = r.error_offset
    /\ offset' = 0 /\ arg' = 0 /\ start' = 0 /\ steps' = 0
    /\ reads' = {}
    /\ NoDecode_ /\ NoResult_
    /\ UNCHANGED <<text, buffer, before>>

Next == Seek \/ Decode \/ NextChar \/ PrevChar \/ Validate

Spec == Init /\ [][Next]_vars

---------------------------------------------------------------------------
(* The codec alone: encode a codepoint, then decode what was written. *)

InitCodec ==
    /\ text = <<>>
    /\ offset = 0
    /\ op = "init"
    /\ arg = 0
    /\ start = 0
    /\ steps = 0
    /\ length = 0
    /\ codepoint \in CodepointSamples
    /\ bytes = 0
    /\ reads = {}
    /\ buffer \in BufferSamples
    /\ before = buffer
    /\ valid = 1
    /\ error_offset = NoOffset
    /\ result = 0
    /\ frame = NoFrame

\* bytes = utflite_encode(codepoint, buffer)
Encode ==
    /\ op = "init"
    /\ LET e == utflite_encode(codepoint, buffer) IN
        /\ op' = "encode"
        /\ bytes' = e.bytes
        /\ buffer' = e.buffer
        /\ before' = buffer
        /\ arg' = codepoint
        /\ UNCHANGED <<text, offset, start, steps, length, codepoint, reads,
                       valid, error_offset, result, frame>>

\* The round trip of the tests: bytes = utflite_decode(buffer, bytes, &codepoint)
\* after an encode that reported success.
DecodeEncoded ==
    /\ op = "encode"
    /\ bytes > 0
    /\ LET d == utflite_decode(buffer, bytes) IN
        /\ op' = "roundtrip"
        /\ length' = bytes
        /\ codepoint' = d.codepoint
        /\ bytes' = d.bytes
        /\ reads' = d.reads
        /\ UNCHANGED <<text, offset, arg, start, steps, buffer, before,
                       valid, error_offset, result, frame>>

NextCodec == Encode \/ DecodeEncoded

SpecCodec == InitCodec /\ [][NextCodec]_vars

---------------------------------------------------------------------------
(* The encoding, stated from the byte patterns and not from the decoder. *)

\* The sequence length a lead byte declares: 110xxxxx, 1110xxxx, 11110xxx.
Declared(first) ==
    IF first \in \hC0 .. \hDF THEN 2
    ELSE IF first \in \hE0 .. \hEF THEN 3
    ELSE IF first \in \hF0 .. \hF7 THEN 4
    ELSE 0

\* A continuation byte (10xxxxxx) or a byte that begins no sequence.
BadLead(first) == first \in (\h80 .. \hBF) \cup (\hF8 .. \hFF)

ContinuationPattern(b) == b \in \h80 .. \hBF

\* The first len bytes of t hold a structurally broken sequence.
StructuralError(t, len) ==
    LET first == t[1]
        n == Declared(first)
    IN \/ BadLead(first)
       \/ n > 0 /\ len < n
       \/ n > 0 /\ len >= n /\ \E i \in 2 .. n : ~ContinuationPattern(t[i])

\* The payload bits of a structurally correct sequence of n bytes.
AccumulatedValue(t, n) ==
    CASE n = 2 -> (t[1] - \hC0) * 64 + (t[2] - \h80)
      [] n = 3 -> (t[1] - \hE0) * 4096 + (t[2] - \h80) * 64 + (t[3] - \h80)
      [] n = 4 -> (t[1] - \hF0) * 262144 + (t[2] - \h80) * 4096
                  + (t[3] - \h80) * 64 + (t[4] - \h80)

\* The first len bytes of t hold a structurally correct sequence whose value
\* is overlong, a surrogate, or above U+10FFFF.
SemanticError(t, len) ==
    LET n == Declared(t[1]) IN
    /\ n > 0
    /\ ~StructuralError(t, len)
    /\ LET v == AccumulatedValue(t, n) IN
       \/ n = 2 /\ v < \h80
       \/ n = 3 /\ v < \h800
       \/ n = 4 /\ v < \h10000
       \/ v \in \hD800 .. \hDFFF
       \/ v > \h10FFFF

DecodeCalled == op \in {"decode", "decode_null"}

---------------------------------------------------------------------------
(* Claims *)

\* C1: for every buffer and every length (length <= 0, a null buffer and
\* every error path included) utflite_decode returns a bytes_consumed in
\* 1..4, never 0 or a negative value.
C1_BytesConsumedInRange ==
    DecodeCalled => bytes \in 1 .. 4

\* C1 witness: decode of a null buffer with a length <= 0 has returned 1.
C1_Witness ==
    /\ op = "decode_null"
    /\ length <= 0
    /\ codepoint = UTFLITE_REPLACEMENT_CHAR
    /\ bytes = 1

\* C2: for every length >= 1 utflite_decode reads only the bytes at indices
\* 0..length-1, also when the lead byte declares a sequence longer than
\* length, and bytes_consumed <= length.
C2_NoReadPastLength ==
    (op = "decode" /\ length >= 1) =>
        /\ reads \subseteq 0 .. (length - 1)
        /\ bytes <= length

\* C2 witness: the lead byte declares more bytes than length, the buffer
\* holds bytes after length, and only index 0 was read.
C2_Witness ==
    /\ op = "decode"
    /\ length >= 1
    /\ Declared(text[1]) > length
    /\ Len(text) > length
    /\ reads = {0}
    /\ bytes = 1

\* C3: a structural error (a lead byte in 0x80..0xBF or 0xF8..0xFF, a length
\* smaller than the declared sequence length, or a declared continuation
\* byte that is not 10xxxxxx) yields U+FFFD with bytes_consumed = 1.
C3_StructuralErrorConsumesOne ==
    (op = "decode" /\ length >= 1 /\ StructuralError(text, length)) =>
        /\ codepoint = UTFLITE_REPLACEMENT_CHAR
        /\ bytes = 1

\* C3 witness: a 3-byte lead, a good first continuation byte and a bad
\* second one, decoded with all three bytes available.
C3_Witness ==
    /\ op = "decode"
    /\ length >= 3
    /\ Declared(text[1]) = 3
    /\ ContinuationPattern(text[2])
    /\ ~ContinuationPattern(text[3])
    /\ codepoint = UTFLITE_REPLACEMENT_CHAR
    /\ bytes = 1

\* C4: a structurally correct sequence whose value is overlong, a surrogate
\* or above U+10FFFF yields U+FFFD with bytes_consumed equal to the declared
\* sequence length; decode never returns a surrogate or a value above
\* U+10FFFF.
C4_SemanticErrorConsumesSequence ==
    /\ (op = "decode" /\ length >= 1 /\ SemanticError(text, length)) =>
           /\ codepoint = UTFLITE_REPLACEMENT_CHAR
           /\ bytes = Declared(text[1])
    /\ DecodeCalled =>
           /\ codepoint \notin \hD800 .. \hDFFF
           /\ codepoint <= \h10FFFF

\* C4 witness: a 4-byte sequence above U+10FFFF was rejected and consumed
\* whole.
C4_Witness ==
    /\ op = "decode"
    /\ length >= 4
    /\ Declared(text[1]) = 4
    /\ SemanticError(text, length)
    /\ AccumulatedValue(text, 4) > \h10FFFF
    /\ codepoint = UTFLITE_REPLACEMENT_CHAR
    /\ bytes = 4

---------------------------------------------------------------------------
(* Codepoints and well-formed byte sequences, stated from the standard. *)

ValidCodepoint(cp) == cp \in 0 .. \h10FFFF /\ cp \notin \hD800 .. \hDFFF

\* The number of bytes of the shortest-form encoding; 0 when there is none.
ExpectedLength(cp) ==
    IF cp < \h80 THEN 1
    ELSE IF cp < \h800 THEN 2
    ELSE IF cp \in \hD800 .. \hDFFF THEN 0
    ELSE IF cp < \h10000 THEN 3
    ELSE IF cp < \h110000 THEN 4
    ELSE 0

\* The length of the well-formed sequence that starts at element i of t
\* (Unicode, table 3-7); 0 when none starts there.
CharLength(t, i) ==
    LET n == Len(t) - i + 1
        b == t[i]
    IN IF b <= \h7F THEN 1
       ELSE IF /\ n >= 2
               /\ b \in \hC2 .. \hDF
               /\ ContinuationPattern(t[i + 1])
            THEN 2
       ELSE IF /\ n >= 3
               /\ \/ b = \hE0 /\ t[i + 1] \in \hA0 .. \hBF
                  \/ b \in \hE1 .. \hEC /\ ContinuationPattern(t[i + 1])
                  \/ b = \hED /\ t[i + 1] \in \h80 .. \h9F
                  \/ b \in \hEE .. \hEF /\ ContinuationPattern(t[i + 1])
               /\ ContinuationPattern(t[i + 2])
            THEN 3
       ELSE IF /\ n >= 4
               /\ \/ b = \hF0 /\ t[i + 1] \in \h90 .. \hBF
                  \/ b \in \hF1 .. \hF3 /\ ContinuationPattern(t[i + 1])
                  \/ b = \hF4 /\ t[i + 1] \in \h80 .. \h8F
               /\ ContinuationPattern(t[i + 2])
               /\ ContinuationPattern(t[i + 3])
            THEN 4
       ELSE 0

\* t from element i on is a concatenation of well-formed sequences.
RECURSIVE WellFormedFrom(_, _)
WellFormedFrom(t, i) ==
    \/ i > Len(t)
    \/ /\ CharLength(t, i) > 0
       /\ WellFormedFrom(t, i + CharLength(t, i))

WellFormed(t) == WellFormedFrom(t, 1)

\* The offsets below len met when stepping from off by decode.
RECURSIVE DecodeBoundaries(_, _, _)
DecodeBoundaries(t, len, off) ==
    IF off >= len THEN {}
    ELSE {off} \cup DecodeBoundaries(t, len,
                        off + utflite_decode(Advance(t, off), len - off).bytes)

\* The bytes at offset off are EF BF BD.
LiteralReplacementAt(t, off) ==
    /\ off + 3 <= Len(t)
    /\ SubSeq(t, off + 1, off + 3) = <<\hEF, \hBF, \hBD>>

---------------------------------------------------------------------------
(* Claims, continued *)

\* C5: round trip.  For every valid codepoint cp, n = utflite_encode(cp, buf)
\* is at least 1 and utflite_decode(buf, n) returns cp with bytes_consumed
\* = n; the boundary values of every length and U+FFFD are among the samples.
C5_RoundTrip ==
    /\ (op = "encode" /\ ValidCodepoint(arg)) => bytes >= 1
    /\ (op = "roundtrip" /\ ValidCodepoint(arg)) =>
           /\ codepoint = arg
           /\ bytes = length

\* C5 witness: U+FFFD itself was encoded to three bytes and decoded back.
C5_Witness ==
    /\ op = "roundtrip"
    /\ arg = UTFLITE_REPLACEMENT_CHAR
    /\ length = 3
    /\ codepoint = UTFLITE_REPLACEMENT_CHAR
    /\ bytes = 3

\* C6: utflite_encode returns 1, 2, 3, 4 for [0,0x80), [0x80,0x800),
\* [0x800,0x10000) without the surrogates, [0x10000,0x110000) and writes
\* that many bytes; for a surrogate or a codepoint above U+10FFFF it
\* returns 0 and leaves the four bytes of the buffer as they were.
C6_EncodeLengthAndFailure ==
    op = "encode" =>
        /\ bytes = ExpectedLength(arg)
        /\ \A i \in (bytes + 1) .. UTFLITE_MAX_BYTES : buffer[i] = before[i]
        /\ ~ValidCodepoint(arg) => (bytes = 0 /\ buffer = before)

\* C6 witness: encode of a surrogate returned 0 over a buffer of non-zero
\* bytes, which it left unchanged.
C6_Witness ==
    /\ op = "encode"
    /\ arg \in \hD800 .. \hDFFF
    /\ bytes = 0
    /\ before[1] = \hAA
    /\ buffer = before

\* C7: utflite_validate returns 1 exactly when the buffer is a concatenation
\* of well-formed sequences and 0 otherwise; the literal bytes EF BF BD at a
\* character position are valid, and any other decode that yields U+FFFD
\* makes the buffer invalid.
C7_ValidateIffWellFormed ==
    op = "validate" =>
        /\ valid \in {0, 1}
        /\ valid = 1 <=> WellFormed(text)
        /\ valid = 1 <=>
               \A b \in DecodeBoundaries(text, Len(text), 0) :
                   utflite_decode(Advance(text, b), Len(text) - b).codepoint
                       = UTFLITE_REPLACEMENT_CHAR
                   => LiteralReplacementAt(text, b)

\* C7 witness: a buffer holding another character and then the literal
\* bytes EF BF BD was reported valid.
C7_Witness ==
    /\ op = "validate"
    /\ valid = 1
    /\ \E b \in 1 .. Len(text) : LiteralReplacementAt(text, b)

\* C8: when utflite_validate returns 0, *error_offset is the offset of the
\* first ill-formed sequence: 0 <= *error_offset < length, the prefix before
\* it validates, and no well-formed sequence starts at it.
C8_ErrorOffsetIsFirstError ==
    (op = "validate" /\ valid = 0) =>
        /\ 0 <= error_offset
        /\ error_offset < Len(text)
        /\ utflite_validate(text, error_offset).valid = 1
        /\ WellFormed(SubSeq(text, 1, error_offset))
        /\ CharLength(text, error_offset + 1) = 0

\* C8 witness: an error was reported after a well-formed character.
C8_Witness ==
    /\ op = "validate"
    /\ valid = 0
    /\ error_offset > 0

\* C9: for 0 <= offset < L, offset < utflite_next_char(text, L, offset) <= L;
\* for offset >= L it returns L; so iterating from 0 reaches L in at most L
\* steps, whatever the bytes are.
C9_NextCharProgress ==
    op = "next_char" =>
        /\ (0 <= arg /\ arg < Len(text)) => (arg < offset /\ offset <= Len(text))
        /\ arg >= Len(text) => offset = Len(text)
        /\ start = 0 => offset >= Min(steps, Len(text))

\* C9 witness: an iteration from 0 over at least four bytes that took one
\* step per byte and has just reached the end.
C9_Witness ==
    /\ op = "next_char"
    /\ start = 0
    /\ Len(text) >= 4
    /\ steps = Len(text)
    /\ arg = Len(text) - 1
    /\ offset = Len(text)

\* C10: for offset >= 1 utflite_prev_char returns p with
\* max(0, offset - 4) <= p <= offset - 1 and reads no byte outside
\* [max(0, offset - 4) + 1, offset - 1]; for offset <= 0 it returns 0.
C10_PrevCharBounded ==
    op = "prev_char" =>
        /\ arg >= 1 =>
               /\ Max(0, arg - 4) <= offset
               /\ offset <= arg - 1
               /\ reads \subseteq (Max(0, arg - 4) + 1) .. (arg - 1)
        /\ arg <= 0 => offset = 0

\* C10 witness: a run of continuation bytes stopped the scan at the bound,
\* four bytes back, on a byte that is a continuation byte itself.
C10_Witness ==
    /\ op = "prev_char"
    /\ arg >= 5
    /\ offset = arg - 4
    /\ ContinuationPattern(text[offset + 1])
    /\ reads = (arg - 3) .. (arg - 1)

\* C11: on a well-formed buffer, for every character boundary b < length
\* reached by iterating utflite_next_char from 0, a utflite_prev_char call
\* made at utflite_next_char(text, length, b) returns b.
C11_PrevCharInvertsNextChar ==
    [][(/\ op = "next_char"
        /\ start = 0
        /\ WellFormed(text)
        /\ arg < Len(text)
        /\ op' = "prev_char") => offset' = arg]_vars

\* C11 witness: utflite_prev_char called at the end of a well-formed buffer
\* of two characters stepped back over a four-byte character.
C11_Witness ==
    /\ op = "prev_char"
    /\ WellFormed(text)
    /\ Len(text) >= 5
    /\ arg = Len(text)
    /\ offset = arg - 4
    /\ CharLength(text, offset + 1) = 4

---------------------------------------------------------------------------
(* Unicode property tables *)

\* enum gcb_property
GCB_OTHER == 0
GCB_CR == 1
GCB_LF == 2
GCB_CONTROL == 3
GCB_EXTEND == 4
GCB_ZWJ == 5
GCB_REGIONAL_INDICATOR == 6
GCB_PREPEND == 7
GCB_SPACING_MARK == 8
GCB_L == 9
GCB_V == 10
GCB_T == 11
GCB_LV == 12
GCB_LVT == 13

HANGUL_SBASE == \hAC00
HANGUL_SEND == \hD7A3
HANGUL_TCOUNT == 28

GRAPHEME_MAX_BACKTRACK == 128

\* A range is <<start, end>>; a GCB range is <<start, end, property>>.
RangeStart(range) == range[1]
RangeEnd(range) == range[2]
RangeProperty(range) == range[3]

ZERO_WIDTH_RANGES == <<
    <<\h0300, \h036F>>, <<\h0483, \h0489>>, <<\h0591, \h05BD>>, <<\h05BF, \h05BF>>,
    <<\h05C1, \h05C2>>, <<\h05C4, \h05C5>>, <<\h05C7, \h05C7>>, <<\h0600, \h0605>>,
    <<\h0610, \h061A>>, <<\h061C, \h061C>>, <<\h064B, \h065F>>, <<\h0670, \h0670>>,
    <<\h06D6, \h06DD>>, <<\h06DF, \h06E4>>, <<\h06E7, \h06E8>>, <<\h06EA, \h06ED>>,
    <<\h070F, \h070F>>, <<\h0711, \h0711>>, <<\h0730, \h074A>>, <<\h07A6, \h07B0>>,
    <<\h07EB, \h07F3>>, <<\h07FD, \h07FD>>, <<\h0816, \h0819>>, <<\h081B, \h0823>>,
    <<\h0825, \h0827>>, <<\h0829, \h082D>>, <<\h0859, \h085B>>, <<\h0890, \h0891>>,
    <<\h0897, \h089F>>, <<\h08CA, \h0902>>, <<\h093A, \h093A>>, <<\h093C, \h093C>>,
    <<\h0941, \h0948>>, <<\h094D, \h094D>>, <<\h0951, \h0957>>, <<\h0962, \h0963>>,
    <<\h0981, \h0981>>, <<\h09BC, \h09BC>>, <<\h09C1, \h09C4>>, <<\h09CD, \h09CD>>,
    <<\h09E2, \h09E3>>, <<\h09FE, \h09FE>>, <<\h0A01, \h0A02>>, <<\h0A3C, \h0A3C>>,
    <<\h0A41, \h0A42>>, <<\h0A47, \h0A48>>, <<\h0A4B, \h0A4D>>, <<\h0A51, \h0A51>>,
    <<\h0A70, \h0A71>>, <<\h0A75, \h0A75>>, <<\h0A81, \h0A82>>, <<\h0ABC, \h0ABC>>,
    <<\h0AC1, \h0AC5>>, <<\h0AC7, \h0AC8>>, <<\h0ACD, \h0ACD>>, <<\h0AE2, \h0AE3>>,
    <<\h0AFA, \h0AFF>>, <<\h0B01, \h0B01>>, <<\h0B3C, \h0B3C>>, <<\h0B3F, \h0B3F>>,
    <<\h0B41, \h0B44>>, <<\h0B4D, \h0B4D>>, <<\h0B55, \h0B56>>, <<\h0B62, \h0B63>>,
    <<\h0B82, \h0B82>>, <<\h0BC0, \h0BC0>>, <<\h0BCD, \h0BCD>>, <<\h0C00, \h0C00>>,
    <<\h0C04, \h0C04>>, <<\h0C3C, \h0C3C>>, <<\h0C3E, \h0C40>>, <<\h0C46, \h0C48>>,
    <<\h0C4A, \h0C4D>>, <<\h0C55, \h0C56>>, <<\h0C62, \h0C63>>, <<\h0C81, \h0C81>>,
    <<\h0CBC, \h0CBC>>, <<\h0CBF, \h0CBF>>, <<\h0CC6, \h0CC6>>, <<\h0CCC, \h0CCD>>,
    <<\h0CE2, \h0CE3>>, <<\h0D00, \h0D01>>, <<\h0D3B, \h0D3C>>, <<\h0D41, \h0D44>>,
    <<\h0D4D, \h0D4D>>, <<\h0D62, \h0D63>>, <<\h0D81, \h0D81>>, <<\h0DCA, \h0DCA>>,
    <<\h0DD2, \h0DD4>>, <<\h0DD6, \h0DD6>>, <<\h0E31, \h0E31>>, <<\h0E34, \h0E3A>>,
    <<\h0E47, \h0E4E>>, <<\h0EB1, \h0EB1>>, <<\h0EB4, \h0EBC>>, <<\h0EC8, \h0ECE>>,
    <<\h0F18, \h0F19>>, <<\h0F35, \h0F35>>, <<\h0F37, \h0F37>>, <<\h0F39, \h0F39>>,
    <<\h0F71, \h0F7E>>, <<\h0F80, \h0F84>>, <<\h0F86, \h0F87>>, <<\h0F8D, \h0F97>>,
    <<\h0F99, \h0FBC>>, <<\h0FC6, \h0FC6>>, <<\h102D, \h1030>>, <<\h1032, \h1037>>,
    <<\h1039, \h103A>>, <<\h103D, \h103E>>, <<\h1058, \h1059>>, <<\h105E, \h1060>>,
    <<\h1071, \h1074>>, <<\h1082, \h1082>>, <<\h1085, \h1086>>, <<\h108D, \h108D>>,
    <<\h109D, \h109D>>, <<\h135D, \h135F>>, <<\h1712, \h1714>>, <<\h1732, \h1733>>,
    <<\h1752, \h1753>>, <<\h1772, \h1773>>, <<\h17B4, \h17B5>>, <<\h17B7, \h17BD>>,
    <<\h17C6, \h17C6>>, <<\h17C9, \h17D3>>, <<\h17DD, \h17DD>>, <<\h180B, \h180F>>,
    <<\h1885, \h1886>>, <<\h18A9, \h18A9>>, <<\h1920, \h1922>>, <<\h1927, \h1928>>,
    <<\h1932, \h1932>>, <<\h1939, \h193B>>, <<\h1A17, \h1A18>>, <<\h1A1B, \h1A1B>>,
    <<\h1A56, \h1A56>>, <<\h1A58, \h1A5E>>, <<\h1A60, \h1A60>>, <<\h1A62, \h1A62>>,
    <<\h1A65, \h1A6C>>, <<\h1A73, \h1A7C>>, <<\h1A7F, \h1A7F>>, <<\h1AB0, \h1ADD>>,
    <<\h1AE0, \h1AEB>>, <<\h1B00, \h1B03>>, <<\h1B34, \h1B34>>, <<\h1B36, \h1B3A>>,
    <<\h1B3C, \h1B3C>>, <<\h1B42, \h1B42>>, <<\h1B6B, \h1B73>>, <<\h1B80, \h1B81>>,
    <<\h1BA2, \h1BA5>>, <<\h1BA8, \h1BA9>>, <<\h1BAB, \h1BAD>>, <<\h1BE6, \h1BE6>>,
    <<\h1BE8, \h1BE9>>, <<\h1BED, \h1BED>>, <<\h1BEF, \h1BF1>>, <<\h1C2C, \h1C33>>,
    <<\h1C36, \h1C37>>, <<\h1CD0, \h1CD2>>, <<\h1CD4, \h1CE0>>, <<\h1CE2, \h1CE8>>,
    <<\h1CED, \h1CED>>, <<\h1CF4, \h1CF4>>, <<\h1CF8, \h1CF9>>, <<\h1DC0, \h1DFF>>,
    <<\h200B, \h200F>>, <<\h202A, \h202E>>, <<\h2060, \h2064>>, <<\h2066, \h206F>>,
    <<\h20D0, \h20F0>>, <<\h2CEF, \h2CF1>>, <<\h2D7F, \h2D7F>>, <<\h2DE0, \h2DFF>>,
    <<\h302A, \h302D>>, <<\h3099, \h309A>>, <<\hA66F, \hA672>>, <<\hA674, \hA67D>>,
    <<\hA69E, \hA69F>>, <<\hA6F0, \hA6F1>>, <<\hA802, \hA802>>, <<\hA806, \hA806>>,
    <<\hA80B, \hA80B>>, <<\hA825, \hA826>>, <<\hA82C, \hA82C>>, <<\hA8C4, \hA8C5>>,
    <<\hA8E0, \hA8F1>>, <<\hA8FF, \hA8FF>>, <<\hA926, \hA92D>>, <<\hA947, \hA951>>,
    <<\hA980, \hA982>>, <<\hA9B3, \hA9B3>>, <<\hA9B6, \hA9B9>>, <<\hA9BC, \hA9BD>>,
    <<\hA9E5, \hA9E5>>, <<\hAA29, \hAA2E>>, <<\hAA31, \hAA32>>, <<\hAA35, \hAA36>>,
    <<\hAA43, \hAA43>>, <<\hAA4C, \hAA4C>>, <<\hAA7C, \hAA7C>>, <<\hAAB0, \hAAB0>>,
    <<\hAAB2, \hAAB4>>, <<\hAAB7, \hAAB8>>, <<\hAABE, \hAABF>>, <<\hAAC1, \hAAC1>>,
    <<\hAAEC, \hAAED>>, <<\hAAF6, \hAAF6>>, <<\hABE5, \hABE5>>, <<\hABE8, \hABE8>>,
    <<\hABED, \hABED>>, <<\hFB1E, \hFB1E>>, <<\hFE00, \hFE0F>>, <<\hFE20, \hFE2F>>,
    <<\hFEFF, \hFEFF>>, <<\hFFF9, \hFFFB>>, <<\h101FD, \h101FD>>, <<\h102E0, \h102E0>>,
    <<\h10376, \h1037A>>, <<\h10A01, \h10A03>>, <<\h10A05, \h10A06>>, <<\h10A0C, \h10A0F>>,
    <<\h10A38, \h10A3A>>, <<\h10A3F, \h10A3F>>, <<\h10AE5, \h10AE6>>, <<\h10D24, \h10D27>>,
    <<\h10D69, \h10D6D>>, <<\h10EAB, \h10EAC>>, <<\h10EFA, \h10EFF>>, <<\h10F46, \h10F50>>,
    <<\h10F82, \h10F85>>, <<\h11001, \h11001>>, <<\h11038, \h11046>>, <<\h11070, \h11070>>,
    <<\h11073, \h11074>>, <<\h1107F, \h11081>>, <<\h110B3, \h110B6>>, <<\h110B9, \h110BA>>,
    <<\h110BD, \h110BD>>, <<\h110C2, \h110C2>>, <<\h110CD, \h110CD>>, <<\h11100, \h11102>>,
    <<\h11127, \h1112B>>, <<\h1112D, \h11134>>, <<\h11173, \h11173>>, <<\h11180, \h11181>>,
    <<\h111B6, \h111BE>>, <<\h111C9, \h111CC>>, <<\h111CF, \h111CF>>, <<\h1122F, \h11231>>,
    <<\h11234, \h11234>>, <<\h11236, \h11237>>, <<\h1123E, \h1123E>>, <<\h11241, \h11241>>,
    <<\h112DF, \h112DF>>, <<\h112E3, \h112EA>>, <<\h11300, \h11301>>, <<\h1133B, \h1133C>>,
    <<\h11340, \h11340>>, <<\h11366, \h1136C>>, <<\h11370, \h11374>>, <<\h113BB, \h113C0>>,
    <<\h113CE, \h113CE>>, <<\h113D0, \h113D0>>, <<\h113D2, \h113D2>>, <<\h113E1, \h113E2>>,
    <<\h11438, \h1143F>>, <<\h11442, \h11444>>, <<\h11446, \h11446>>, <<\h1145E, \h1145E>>,
    <<\h114B3, \h114B8>>, <<\h114BA, \h114BA>>, <<\h114BF, \h114C0>>, <<\h114C2, \h114C3>>,
    <<\h115B2, \h115B5>>, <<\h115BC, \h115BD>>, <<\h115BF, \h115C0>>, <<\h115DC, \h115DD>>,
    <<\h11633, \h1163A>>, <<\h1163D, \h1163D>>, <<\h1163F, \h11640>>, <<\h116AB, \h116AB>>,
    <<\h116AD, \h116AD>>, <<\h116B0, \h116B5>>, <<\h116B7, \h116B7>>, <<\h1171D, \h1171D>>,
    <<\h1171F, \h1171F>>, <<\h11722, \h11725>>, <<\h11727, \h1172B>>, <<\h1182F, \h11837>>,
    <<\h11839, \h1183A>>, <<\h1193B, \h1193C>>, <<\h1193E, \h1193E>>, <<\h11943, \h11943>>,
    <<\h119D4, \h119D7>>, <<\h119DA, \h119DB>>, <<\h119E0, \h119E0>>, <<\h11A01, \h11A0A>>,
    <<\h11A33, \h11A38>>, <<\h11A3B, \h11A3E>>, <<\h11A47, \h11A47>>, <<\h11A51, \h11A56>>,
    <<\h11A59, \h11A5B>>, <<\h11A8A, \h11A96>>, <<\h11A98, \h11A99>>, <<\h11B60, \h11B60>>,
    <<\h11B62, \h11B64>>, <<\h11B66, \h11B66>>, <<\h11C30, \h11C36>>, <<\h11C38, \h11C3D>>,
    <<\h11C3F, \h11C3F>>, <<\h11C92, \h11CA7>>, <<\h11CAA, \h11CB0>>, <<\h11CB2, \h11CB3>>,
    <<\h11CB5, \h11CB6>>, <<\h11D31, \h11D36>>, <<\h11D3A, \h11D3A>>, <<\h11D3C, \h11D3D>>,
    <<\h11D3F, \h11D45>>, <<\h11D47, \h11D47>>, <<\h11D90, \h11D91>>, <<\h11D95, \h11D95>>,
    <<\h11D97, \h11D97>>, <<\h11EF3, \h11EF4>>, <<\h11F00, \h11F01>>, <<\h11F36, \h11F3A>>,
    <<\h11F40, \h11F40>>, <<\h11F42, \h11F42>>, <<\h11F5A, \h11F5A>>, <<\h13430, \h13440>>,
    <<\h13447, \h13455>>, <<\h1611E, \h16129>>, <<\h1612D, \h1612F>>, <<\h16AF0, \h16AF4>>,
    <<\h16B30, \h16B36>>, <<\h16F4F, \h16F4F>>, <<\h16F8F, \h16F92>>, <<\h16FE4, \h16FE4>>,
    <<\h1BC9D, \h1BC9E>>, <<\h1BCA0, \h1BCA3>>, <<\h1CF00, \h1CF2D>>, <<\h1CF30, \h1CF46>>,
    <<\h1D167, \h1D169>>, <<\h1D173, \h1D182>>, <<\h1D185, \h1D18B>>, <<\h1D1AA, \h1D1AD>>,
    <<\h1D242, \h1D244>>, <<\h1DA00, \h1DA36>>, <<\h1DA3B, \h1DA6C>>, <<\h1DA75, \h1DA75>>,
    <<\h1DA84, \h1DA84>>, <<\h1DA9B, \h1DA9F>>, <<\h1DAA1, \h1DAAF>>, <<\h1E000, \h1E006>>,
    <<\h1E008, \h1E018>>, <<\h1E01B, \h1E021>>, <<\h1E023, \h1E024>>, <<\h1E026, \h1E02A>>,
    <<\h1E08F, \h1E08F>>, <<\h1E130, \h1E136>>, <<\h1E2AE, \h1E2AE>>, <<\h1E2EC, \h1E2EF>>,
    <<\h1E4EC, \h1E4EF>>, <<\h1E5EE, \h1E5EF>>, <<\h1E6E3, \h1E6E3>>, <<\h1E6E6, \h1E6E6>>,
    <<\h1E6EE, \h1E6EF>>, <<\h1E6F5, \h1E6F5>>, <<\h1E8D0, \h1E8D6>>, <<\h1E944, \h1E94A>>,
    <<\hE0001, \hE0001>>, <<\hE0020, \hE007F>>, <<\hE0100, \hE01EF>>
>>

DOUBLE_WIDTH_RANGES == <<
    <<\h00A9, \h00A9>>, <<\h00AE, \h00AE>>, <<\h1100, \h115F>>, <<\h203C, \h203C>>,
    <<\h2049, \h2049>>, <<\h2122, \h2122>>, <<\h2139, \h2139>>, <<\h2194, \h2199>>,
    <<\h21A9, \h21AA>>, <<\h231A, \h231B>>, <<\h2328, \h232A>>, <<\h23CF, \h23CF>>,
    <<\h23E9, \h23F3>>, <<\h23F8, \h23FA>>, <<\h24C2, \h24C2>>, <<\h25AA, \h25AB>>,
    <<\h25B6, \h25B6>>, <<\h25C0, \h25C0>>, <<\h25FB, \h25FE>>, <<\h2600, \h2604>>,
    <<\h260E, \h260E>>, <<\h2611, \h2611>>, <<\h2614, \h2615>>, <<\h2618, \h2618>>,
    <<\h261D, \h261D>>, <<\h2620, \h2620>>, <<\h2622, \h2623>>, <<\h2626, \h2626>>,
    <<\h262A, \h262A>>, <<\h262E, \h263A>>, <<\h2640, \h2640>>, <<\h2642, \h2642>>,
    <<\h2648, \h2653>>, <<\h265F, \h2660>>, <<\h2663, \h2663>>, <<\h2665, \h2666>>,
    <<\h2668, \h2668>>, <<\h267B, \h267B>>, <<\h267E, \h267F>>, <<\h268A, \h268F>>,
    <<\h2692, \h2697>>, <<\h2699, \h2699>>, <<\h269B, \h269C>>, <<\h26A0, \h26A1>>,
    <<\h26A7, \h26A7>>, <<\h26AA, \h26AB>>, <<\h26B0, \h26B1>>, <<\h26BD, \h26BE>>,
    <<\h26C4, \h26C5>>, <<\h26C8, \h26C8>>, <<\h26CE, \h26CF>>, <<\h26D1, \h26D1>>,
    <<\h26D3, \h26D4>>, <<\h26E9, \h26EA>>, <<\h26F0, \h26F5>>, <<\h26F7, \h26FA>>,
    <<\h26FD, \h26FD>>, <<\h2702, \h2702>>, <<\h2705, \h2705>>, <<\h2708, \h270D>>,
    <<\h270F, \h270F>>, <<\h2712, \h2712>>, <<\h2714, \h2714>>, <<\h2716, \h2716>>,
    <<\h271D, \h271D>>, <<\h2721, \h2721>>, <<\h2728, \h2728>>, <<\h2733, \h2734>>,
    <<\h2744, \h2744>>, <<\h2747, \h2747>>, <<\h274C, \h274C>>, <<\h274E, \h274E>>,
    <<\h2753, \h2755>>, <<\h2757, \h2757>>, <<\h2763, \h2764>>, <<\h2795, \h2797>>,
    <<\h27A1, \h27A1>>, <<\h27B0, \h27B0>>, <<\h27BF, \h27BF>>, <<\h2934, \h2935>>,
    <<\h2B05, \h2B07>>, <<\h2B1B, \h2B1C>>, <<\h2B50, \h2B50>>, <<\h2B55, \h2B55>>,
    <<\h2E80, \h2E99>>, <<\h2E9B, \h2EF3>>, <<\h2F00, \h2FD5>>, <<\h2FF0, \h303E>>,
    <<\h3041, \h3096>>, <<\h3099, \h30FF>>, <<\h3105, \h312F>>, <<\h3131, \h318E>>,
    <<\h3190, \h31E5>>, <<\h31EF, \h321E>>, <<\h3220, \h3247>>, <<\h3250, \hA48C>>,
    <<\hA490, \hA4C6>>, <<\hA960, \hA97C>>, <<\hAC00, \hD7A3>>, <<\hF900, \hFAFF>>,
    <<\hFE10, \hFE19>>, <<\hFE30, \hFE52>>, <<\hFE54, \hFE66>>, <<\hFE68, \hFE6B>>,
    <<\hFF01, \hFF60>>, <<\hFFE0, \hFFE6>>, <<\h16FE0, \h16FE4>>, <<\h16FF0, \h16FF6>>,
    <<\h17000, \h18CD5>>, <<\h18CFF, \h18D1E>>, <<\h18D80, \h18DF2>>, <<\h1AFF0, \h1AFF3>>,
    <<\h1AFF5, \h1AFFB>>, <<\h1AFFD, \h1AFFE>>, <<\h1B000, \h1B122>>, <<\h1B132, \h1B132>>,
    <<\h1B150, \h1B152>>, <<\h1B155, \h1B155>>, <<\h1B164, \h1B167>>, <<\h1B170, \h1B2FB>>,
    <<\h1D300, \h1D356>>, <<\h1D360, \h1D376>>, <<\h1F004, \h1F004>>, <<\h1F02C, \h1F02F>>,
    <<\h1F094, \h1F09F>>, <<\h1F0AF, \h1F0B0>>, <<\h1F0C0, \h1F0C0>>, <<\h1F0CF, \h1F0D0>>,
    <<\h1F0F6, \h1F0FF>>, <<\h1F170, \h1F171>>, <<\h1F17E, \h1F17F>>, <<\h1F18E, \h1F18E>>,
    <<\h1F191, \h1F19A>>, <<\h1F1AE, \h1F1E5>>, <<\h1F200, \h1F321>>, <<\h1F324, \h1F393>>,
    <<\h1F396, \h1F397>>, <<\h1F399, \h1F39B>>, <<\h1F39E, \h1F3F0>>, <<\h1F3F3, \h1F3F5>>,
    <<\h1F3F7, \h1F4FD>>, <<\h1F4FF, \h1F53D>>, <<\h1F549, \h1F54E>>, <<\h1F550, \h1F567>>,
    <<\h1F56F, \h1F570>>, <<\h1F573, \h1F57A>>, <<\h1F587, \h1F587>>, <<\h1F58A, \h1F58D>>,
    <<\h1F590, \h1F590>>, <<\h1F595, \h1F596>>, <<\h1F5A4, \h1F5A5>>, <<\h1F5A8, \h1F5A8>>,
    <<\h1F5B1, \h1F5B2>>, <<\h1F5BC, \h1F5BC>>, <<\h1F5C2, \h1F5C4>>, <<\h1F5D1, \h1F5D3>>,
    <<\h1F5DC, \h1F5DE>>, <<\h1F5E1, \h1F5E1>>, <<\h1F5E3, \h1F5E3>>, <<\h1F5E8, \h1F5E8>>,
    <<\h1F5EF, \h1F5EF>>, <<\h1F5F3, \h1F5F3>>, <<\h1F5FA, \h1F64F>>, <<\h1F680, \h1F6C5>>,
    <<\h1F6CB, \h1F6D2>>, <<\h1F6D5, \h1F6E5>>, <<\h1F6E9, \h1F6E9>>, <<\h1F6EB, \h1F6F0>>,
    <<\h1F6F3, \h1F6FF>>, <<\h1F7DA, \h1F7FF>>, <<\h1F80C, \h1F80F>>, <<\h1F848, \h1F84F>>,
    <<\h1F85A, \h1F85F>>, <<\h1F888, \h1F88F>>, <<\h1F8AE, \h1F8AF>>, <<\h1F8BC, \h1F8BF>>,
    <<\h1F8C2, \h1F8CF>>, <<\h1F8D9, \h1F8FF>>, <<\h1F90C, \h1F93A>>, <<\h1F93C, \h1F945>>,
    <<\h1F947, \h1F9FF>>, <<\h1FA58, \h1FA5F>>, <<\h1FA6E, \h1FAFF>>, <<\h1FC00, \h1FFFD>>,
    <<\h20000, \h2FFFD>>, <<\h30000, \h3FFFD>>
>>

GCB_RANGES == <<
    <<\h0000, \h0009, GCB_CONTROL>>, <<\h000A, \h000A, GCB_LF>>,
    <<\h000B, \h000C, GCB_CONTROL>>, <<\h000D, \h000D, GCB_CR>>,
    <<\h000E, \h001F, GCB_CONTROL>>, <<\h007F, \h009F, GCB_CONTROL>>,
    <<\h00AD, \h00AD, GCB_CONTROL>>, <<\h0300, \h036F, GCB_EXTEND>>,
    <<\h0483, \h0489, GCB_EXTEND>>, <<\h0591, \h05BD, GCB_EXTEND>>,
    <<\h05BF, \h05BF, GCB_EXTEND>>, <<\h05C1, \h05C2, GCB_EXTEND>>,
    <<\h05C4, \h05C5, GCB_EXTEND>>, <<\h05C7, \h05C7, GCB_EXTEND>>,
    <<\h0600, \h0605, GCB_PREPEND>>, <<\h0610, \h061A, GCB_EXTEND>>,
    <<\h061C, \h061C, GCB_CONTROL>>, <<\h064B, \h065F, GCB_EXTEND>>,
    <<\h0670, \h0670, GCB_EXTEND>>, <<\h06D6, \h06DC, GCB_EXTEND>>,
    <<\h06DD, \h06DD, GCB_PREPEND>>, <<\h06DF, \h06E4, GCB_EXTEND>>,
    <<\h06E7, \h06E8, GCB_EXTEND>>, <<\h06EA, \h06ED, GCB_EXTEND>>,
    <<\h070F, \h070F, GCB_PREPEND>>, <<\h0711, \h0711, GCB_EXTEND>>,
    <<\h0730, \h074A, GCB_EXTEND>>, <<\h07A6, \h07B0, GCB_EXTEND>>,
    <<\h07EB, \h07F3, GCB_EXTEND>>, <<\h07FD, \h07FD, GCB_EXTEND>>,
    <<\h0816, \h0819, GCB_EXTEND>>, <<\h081B, \h0823, GCB_EXTEND>>,
    <<\h0825, \h0827, GCB_EXTEND>>, <<\h0829, \h082D, GCB_EXTEND>>,
    <<\h0859, \h085B, GCB_EXTEND>>, <<\h0890, \h0891, GCB_PREPEND>>,
    <<\h0897, \h089F, GCB_EXTEND>>, <<\h08CA, \h08E1, GCB_EXTEND>>,
    <<\h08E2, \h08E2, GCB_PREPEND>>, <<\h08E3, \h0902, GCB_EXTEND>>,
    <<\h0903, \h0903, GCB_SPACING_MARK>>, <<\h093A, \h093A, GCB_EXTEND>>,
    <<\h093B, \h093B, GCB_SPACING_MARK>>, <<\h093C, \h093C, GCB_EXTEND>>,
    <<\h093E, \h0940, GCB_SPACING_MARK>>, <<\h0941, \h0948, GCB_EXTEND>>,
    <<\h0949, \h094C, GCB_SPACING_MARK>>, <<\h094D, \h094D, GCB_EXTEND>>,
    <<\h094E, \h094F, GCB_SPACING_MARK>>, <<\h0951, \h0957, GCB_EXTEND>>,
    <<\h0962, \h0963, GCB_EXTEND>>, <<\h0981, \h0981, GCB_EXTEND>>,
    <<\h0982, \h0983, GCB_SPACING_MARK>>, <<\h09BC, \h09BC, GCB_EXTEND>>,
    <<\h09BE, \h09BE, GCB_EXTEND>>, <<\h09BF, \h09C0, GCB_SPACING_MARK>>,
    <<\h09C1, \h09C4, GCB_EXTEND>>, <<\h09C7, \h09C8, GCB_SPACING_MARK>>,
    <<\h09CB, \h09CC, GCB_SPACING_MARK>>, <<\h09CD, \h09CD, GCB_EXTEND>>,
    <<\h09D7, \h09D7, GCB_EXTEND>>, <<\h09E2, \h09E3, GCB_EXTEND>>,
    <<\h09FE, \h09FE, GCB_EXTEND>>, <<\h0A01, \h0A02, GCB_EXTEND>>,
    <<\h0A03, \h0A03, GCB_SPACING_MARK>>, <<\h0A3C, \h0A3C, GCB_EXTEND>>,
    <<\h0A3E, \h0A40, GCB_SPACING_MARK>>, <<\h0A41, \h0A42, GCB_EXTEND>>,
    <<\h0A47, \h0A48, GCB_EXTEND>>, <<\h0A4B, \h0A4D, GCB_EXTEND>>,
    <<\h0A51, \h0A51, GCB_EXTEND>>, <<\h0A70, \h0A71, GCB_EXTEND>>,
    <<\h0A75, \h0A75, GCB_EXTEND>>, <<\h0A81, \h0A82, GCB_EXTEND>>,
    <<\h0A83, \h0A83, GCB_SPACING_MARK>>, <<\h0ABC, \h0ABC, GCB_EXTEND>>,
    <<\h0ABE, \h0AC0, GCB_SPACING_MARK>>, <<\h0AC1, \h0AC5, GCB_EXTEND>>,
    <<\h0AC7, \h0AC8, GCB_EXTEND>>, <<\h0AC9, \h0AC9, GCB_SPACING_MARK>>,
    <<\h0ACB, \h0ACC, GCB_SPACING_MARK>>, <<\h0ACD, \h0ACD, GCB_EXTEND>>,
    <<\h0AE2, \h0AE3, GCB_EXTEND>>, <<\h0AFA, \h0AFF, GCB_EXTEND>>,
    <<\h0B01, \h0B01, GCB_EXTEND>>, <<\h0B02, \h0B03, GCB_SPACING_MARK>>,
    <<\h0B3C, \h0B3C, GCB_EXTEND>>, <<\h0B3E, \h0B3F, GCB_EXTEND>>,
    <<\h0B40, \h0B40, GCB_SPACING_MARK>>, <<\h0B41, \h0B44, GCB_EXTEND>>,
    <<\h0B47, \h0B48, GCB_SPACING_MARK>>, <<\h0B4B, \h0B4C, GCB_SPACING_MARK>>,
    <<\h0B4D, \h0B4D, GCB_EXTEND>>, <<\h0B55, \h0B57, GCB_EXTEND>>,
    <<\h0B62, \h0B63, GCB_EXTEND>>, <<\h0B82, \h0B82, GCB_EXTEND>>,
    <<\h0BBE, \h0BBE, GCB_EXTEND>>, <<\h0BBF, \h0BBF, GCB_SPACING_MARK>>,
    <<\h0BC0, \h0BC0, GCB_EXTEND>>, <<\h0BC1, \h0BC2, GCB_SPACING_MARK>>,
    <<\h0BC6, \h0BC8, GCB_SPACING_MARK>>, <<\h0BCA, \h0BCC, GCB_SPACING_MARK>>,
    <<\h0BCD, \h0BCD, GCB_EXTEND>>, <<\h0BD7, \h0BD7, GCB_EXTEND>>,
    <<\h0C00, \h0C00, GCB_EXTEND>>, <<\h0C01, \h0C03, GCB_SPACING_MARK>>,
    <<\h0C04, \h0C04, GCB_EXTEND>>, <<\h0C3C, \h0C3C, GCB_EXTEND>>,
    <<\h0C3E, \h0C40, GCB_EXTEND>>, <<\h0C41, \h0C44, GCB_SPACING_MARK>>,
    <<\h0C46, \h0C48, GCB_EXTEND>>, <<\h0C4A, \h0C4D, GCB_EXTEND>>,
    <<\h0C55, \h0C56, GCB_EXTEND>>, <<\h0C62, \h0C63, GCB_EXTEND>>,
    <<\h0C81, \h0C81, GCB_EXTEND>>, <<\h0C82, \h0C83, GCB_SPACING_MARK>>,
    <<\h0CBC, \h0CBC, GCB_EXTEND>>, <<\h0CBE, \h0CBE, GCB_SPACING_MARK>>,
    <<\h0CBF, \h0CC2, GCB_EXTEND>>, <<\h0CC3, \h0CC4, GCB_SPACING_MARK>>,
    <<\h0CC6, \h0CCB, GCB_EXTEND>>, <<\h0CCC, \h0CCD, GCB_EXTEND>>,
    <<\h0CD5, \h0CD6, GCB_EXTEND>>, <<\h0CE2, \h0CE3, GCB_EXTEND>>,
    <<\h0CF3, \h0CF3, GCB_SPACING_MARK>>, <<\h0D00, \h0D01, GCB_EXTEND>>,
    <<\h0D02, \h0D03, GCB_SPACING_MARK>>, <<\h0D3B, \h0D3C, GCB_EXTEND>>,
    <<\h0D3E, \h0D3E, GCB_EXTEND>>, <<\h0D3F, \h0D40, GCB_SPACING_MARK>>,
    <<\h0D41, \h0D44, GCB_EXTEND>>, <<\h0D46, \h0D48, GCB_SPACING_MARK>>,
    <<\h0D4A, \h0D4C, GCB_SPACING_MARK>>, <<\h0D4D, \h0D4D, GCB_EXTEND>>,
    <<\h0D4E, \h0D4E, GCB_PREPEND>>, <<\h0D57, \h0D57, GCB_EXTEND>>,
    <<\h0D62, \h0D63, GCB_EXTEND>>, <<\h0D81, \h0D81, GCB_EXTEND>>,
    <<\h0D82, \h0D83, GCB_SPACING_MARK>>, <<\h0DCA, \h0DCA, GCB_EXTEND>>,
    <<\h0DCF, \h0DCF, GCB_EXTEND>>, <<\h0DD0, \h0DD1, GCB_SPACING_MARK>>,
    <<\h0DD2, \h0DD6, GCB_EXTEND>>, <<\h0DD8, \h0DDF, GCB_SPACING_MARK>>,
    <<\h0DF2, \h0DF3, GCB_SPACING_MARK>>, <<\h0E31, \h0E31, GCB_EXTEND>>,
    <<\h0E33, \h0E33, GCB_SPACING_MARK>>, <<\h0E34, \h0E3A, GCB_EXTEND>>,
    <<\h0E47, \h0E4E, GCB_EXTEND>>, <<\h0EB1, \h0EB1, GCB_EXTEND>>,
    <<\h0EB3, \h0EB3, GCB_SPACING_MARK>>, <<\h0EB4, \h0EBC, GCB_EXTEND>>,
    <<\h0EC8, \h0ECE, GCB_EXTEND>>, <<\h0F18, \h0F19, GCB_EXTEND>>,
    <<\h0F35, \h0F35, GCB_EXTEND>>, <<\h0F37, \h0F37, GCB_EXTEND>>,
    <<\h0F39, \h0F39, GCB_EXTEND>>, <<\h0F3E, \h0F3F, GCB_SPACING_MARK>>,
    <<\h0F71, \h0F7E, GCB_EXTEND>>, <<\h0F7F, \h0F7F, GCB_SPACING_MARK>>,
    <<\h0F80, \h0F84, GCB_EXTEND>>, <<\h0F86, \h0F87, GCB_EXTEND>>,
    <<\h0F8D, \h0F97, GCB_EXTEND>>, <<\h0F99, \h0FBC, GCB_EXTEND>>,
    <<\h0FC6, \h0FC6, GCB_EXTEND>>, <<\h102D, \h1030, GCB_EXTEND>>,
    <<\h1031, \h1031, GCB_SPACING_MARK>>, <<\h1032, \h1037, GCB_EXTEND>>,
    <<\h1039, \h103A, GCB_EXTEND>>, <<\h103B, \h103C, GCB_SPACING_MARK>>,
    <<\h103D, \h103E, GCB_EXTEND>>, <<\h1056, \h1057, GCB_SPACING_MARK>>,
    <<\h1058, \h1059, GCB_EXTEND>>, <<\h105E, \h1060, GCB_EXTEND>>,
    <<\h1071, \h1074, GCB_EXTEND>>, <<\h1082, \h1082, GCB_EXTEND>>,
    <<\h1084, \h1084, GCB_SPACING_MARK>>, <<\h1085, \h1086, GCB_EXTEND>>,
    <<\h108D, \h108D, GCB_EXTEND>>, <<\h109D, \h109D, GCB_EXTEND>>,
    <<\h1100, \h115F, GCB_L>>, <<\h1160, \h11A7, GCB_V>>,
    <<\h11A8, \h11FF, GCB_T>>, <<\h135D, \h135F, GCB_EXTEND>>,
    <<\h1712, \h1715, GCB_EXTEND>>, <<\h1732, \h1734, GCB_EXTEND>>,
    <<\h1752, \h1753, GCB_EXTEND>>, <<\h1772, \h1773, GCB_EXTEND>>,
    <<\h17B4, \h17B5, GCB_EXTEND>>, <<\h17B6, \h17B6, GCB_SPACING_MARK>>,
    <<\h17B7, \h17BD, GCB_EXTEND>>, <<\h17BE, \h17C5, GCB_SPACING_MARK>>,
    <<\h17C6, \h17C6, GCB_EXTEND>>, <<\h17C7, \h17C8, GCB_SPACING_MARK>>,
    <<\h17C9, \h17D3, GCB_EXTEND>>, <<\h17DD, \h17DD, GCB_EXTEND>>,
    <<\h180B, \h180D, GCB_EXTEND>>, <<\h180E, \h180E, GCB_CONTROL>>,
    <<\h180F, \h180F, GCB_EXTEND>>, <<\h1885, \h1886, GCB_EXTEND>>,
    <<\h18A9, \h18A9, GCB_EXTEND>>, <<\h1920, \h1922, GCB_EXTEND>>,
    <<\h1923, \h1926, GCB_SPACING_MARK>>, <<\h1927, \h1928, GCB_EXTEND>>,
    <<\h1929, \h192B, GCB_SPACING_MARK>>, <<\h1930, \h1931, GCB_SPACING_MARK>>,
    <<\h1932, \h1932, GCB_EXTEND>>, <<\h1933, \h1938, GCB_SPACING_MARK>>,
    <<\h1939, \h193B, GCB_EXTEND>>, <<\h1A17, \h1A18, GCB_EXTEND>>,
    <<\h1A19, \h1A1A, GCB_SPACING_MARK>>, <<\h1A1B, \h1A1B, GCB_EXTEND>>,
    <<\h1A55, \h1A55, GCB_SPACING_MARK>>, <<\h1A56, \h1A56, GCB_EXTEND>>,
    <<\h1A57, \h1A57, GCB_SPACING_MARK>>, <<\h1A58, \h1A60, GCB_EXTEND>>,
    <<\h1A62, \h1A62, GCB_EXTEND>>, <<\h1A65, \h1A6C, GCB_EXTEND>>,
    <<\h1A6D, \h1A72, GCB_SPACING_MARK>>, <<\h1A73, \h1A7F, GCB_EXTEND>>,
    <<\h1AB0, \h1AEB, GCB_EXTEND>>, <<\h1B00, \h1B03, GCB_EXTEND>>,
    <<\h1B04, \h1B04, GCB_SPACING_MARK>>, <<\h1B34, \h1B3C, GCB_EXTEND>>,
    <<\h1B3D, \h1B41, GCB_SPACING_MARK>>, <<\h1B42, \h1B44, GCB_EXTEND>>,
    <<\h1B6B, \h1B73, GCB_EXTEND>>, <<\h1B80, \h1B81, GCB_EXTEND>>,
    <<\h1B82, \h1B82, GCB_SPACING_MARK>>, <<\h1BA1, \h1BA1, GCB_SPACING_MARK>>,
    <<\h1BA2, \h1BA5, GCB_EXTEND>>, <<\h1BA6, \h1BA7, GCB_SPACING_MARK>>,
    <<\h1BA8, \h1BAD, GCB_EXTEND>>, <<\h1BE6, \h1BE6, GCB_EXTEND>>,
    <<\h1BE7, \h1BE7, GCB_SPACING_MARK>>, <<\h1BE8, \h1BE9, GCB_EXTEND>>,
    <<\h1BEA, \h1BEC, GCB_SPACING_MARK>>, <<\h1BED, \h1BED, GCB_EXTEND>>,
    <<\h1BEE, \h1BEE, GCB_SPACING_MARK>>, <<\h1BEF, \h1BF3, GCB_EXTEND>>,
    <<\h1C24, \h1C2B, GCB_SPACING_MARK>>, <<\h1C2C, \h1C33, GCB_EXTEND>>,
    <<\h1C34, \h1C35, GCB_SPACING_MARK>>, <<\h1C36, \h1C37, GCB_EXTEND>>,
    <<\h1CD0, \h1CD2, GCB_EXTEND>>, <<\h1CD4, \h1CE0, GCB_EXTEND>>,
    <<\h1CE1, \h1CE1, GCB_SPACING_MARK>>, <<\h1CE2, \h1CE8, GCB_EXTEND>>,
    <<\h1CED, \h1CED, GCB_EXTEND>>, <<\h1CF4, \h1CF4, GCB_EXTEND>>,
    <<\h1CF7, \h1CF7, GCB_SPACING_MARK>>, <<\h1CF8, \h1CF9, GCB_EXTEND>>,
    <<\h1DC0, \h1DFF, GCB_EXTEND>>, <<\h200B, \h200B, GCB_CONTROL>>,
    <<\h200C, \h200C, GCB_EXTEND>>, <<\h200D, \h200D, GCB_ZWJ>>,
    <<\h200E, \h200F, GCB_CONTROL>>, <<\h2028, \h202E, GCB_CONTROL>>,
    <<\h2060, \h206F, GCB_CONTROL>>, <<\h20D0, \h20F0, GCB_EXTEND>>,
    <<\h2CEF, \h2CF1, GCB_EXTEND>>, <<\h2D7F, \h2D7F, GCB_EXTEND>>,
    <<\h2DE0, \h2DFF, GCB_EXTEND>>, <<\h302A, \h302F, GCB_EXTEND>>,
    <<\h3099, \h309A, GCB_EXTEND>>, <<\hA66F, \hA672, GCB_EXTEND>>,
    <<\hA674, \hA67D, GCB_EXTEND>>, <<\hA69E, \hA69F, GCB_EXTEND>>,
    <<\hA6F0, \hA6F1, GCB_EXTEND>>, <<\hA802, \hA802, GCB_EXTEND>>,
    <<\hA806, \hA806, GCB_EXTEND>>, <<\hA80B, \hA80B, GCB_EXTEND>>,
    <<\hA823, \hA824, GCB_SPACING_MARK>>, <<\hA825, \hA826, GCB_EXTEND>>,
    <<\hA827, \hA827, GCB_SPACING_MARK>>, <<\hA82C, \hA82C, GCB_EXTEND>>,
    <<\hA880, \hA881, GCB_SPACING_MARK>>, <<\hA8B4, \hA8C3, GCB_SPACING_MARK>>,
    <<\hA8C4, \hA8C5, GCB_EXTEND>>, <<\hA8E0, \hA8F1, GCB_EXTEND>>,
    <<\hA8FF, \hA8FF, GCB_EXTEND>>, <<\hA926, \hA92D, GCB_EXTEND>>,
    <<\hA947, \hA951, GCB_EXTEND>>, <<\hA952, \hA952, GCB_SPACING_MARK>>,
    <<\hA953, \hA953, GCB_EXTEND>>, <<\hA960, \hA97C, GCB_L>>,
    <<\hA980, \hA982, GCB_EXTEND>>, <<\hA983, \hA983, GCB_SPACING_MARK>>,
    <<\hA9B3, \hA9B3, GCB_EXTEND>>, <<\hA9B4, \hA9B5, GCB_SPACING_MARK>>,
    <<\hA9B6, \hA9B9, GCB_EXTEND>>, <<\hA9BA, \hA9BB, GCB_SPACING_MARK>>,
    <<\hA9BC, \hA9C0, GCB_EXTEND>>, <<\hA9E5, \hA9E5, GCB_EXTEND>>,
    <<\hAA29, \hAA2E, GCB_EXTEND>>, <<\hAA2F, \hAA30, GCB_SPACING_MARK>>,
    <<\hAA31, \hAA32, GCB_EXTEND>>, <<\hAA33, \hAA34, GCB_SPACING_MARK>>,
    <<\hAA35, \hAA36, GCB_EXTEND>>, <<\hAA43, \hAA43, GCB_EXTEND>>,
    <<\hAA4C, \hAA4C, GCB_EXTEND>>, <<\hAA4D, \hAA4D, GCB_SPACING_MARK>>,
    <<\hAA7C, \hAA7C, GCB_EXTEND>>, <<\hAAB0, \hAAB0, GCB_EXTEND>>,
    <<\hAAB2, \hAAB4, GCB_EXTEND>>, <<\hAAB7, \hAAB8, GCB_EXTEND>>,
    <<\hAABE, \hAAC1, GCB_EXTEND>>, <<\hAAEB, \hAAEB, GCB_SPACING_MARK>>,
    <<\hAAEC, \hAAED, GCB_EXTEND>>, <<\hAAEE, \hAAEF, GCB_SPACING_MARK>>,
    <<\hAAF5, \hAAF5, GCB_SPACING_MARK>>, <<\hAAF6, \hAAF6, GCB_EXTEND>>,
    <<\hABE3, \hABE4, GCB_SPACING_MARK>>, <<\hABE5, \hABE5, GCB_EXTEND>>,
    <<\hABE6, \hABE7, GCB_SPACING_MARK>>, <<\hABE8, \hABE8, GCB_EXTEND>>,
    <<\hABE9, \hABEA, GCB_SPACING_MARK>>, <<\hABEC, \hABEC, GCB_SPACING_MARK>>,
    <<\hABED, \hABED, GCB_EXTEND>>, <<\hD7B0, \hD7C6, GCB_V>>,
    <<\hD7CB, \hD7FB, GCB_T>>, <<\hFB1E, \hFB1E, GCB_EXTEND>>,
    <<\hFE00, \hFE0F, GCB_EXTEND>>, <<\hFE20, \hFE2F, GCB_EXTEND>>,
    <<\hFEFF, \hFEFF, GCB_CONTROL>>, <<\hFF9E, \hFF9F, GCB_EXTEND>>,
    <<\hFFF0, \hFFFB, GCB_CONTROL>>, <<\h101FD, \h101FD, GCB_EXTEND>>,
    <<\h102E0, \h102E0, GCB_EXTEND>>, <<\h10376, \h1037A, GCB_EXTEND>>,
    <<\h10A01, \h10A03, GCB_EXTEND>>, <<\h10A05, \h10A06, GCB_EXTEND>>,
    <<\h10A0C, \h10A0F, GCB_EXTEND>>, <<\h10A38, \h10A3F, GCB_EXTEND>>,
    <<\h10AE5, \h10AE6, GCB_EXTEND>>, <<\h10D24, \h10D27, GCB_EXTEND>>,
    <<\h10D69, \h10D6D, GCB_EXTEND>>, <<\h10EAB, \h10EAC, GCB_EXTEND>>,
    <<\h10EFA, \h10EFF, GCB_EXTEND>>, <<\h10F46, \h10F50, GCB_EXTEND>>,
    <<\h10F82, \h10F85, GCB_EXTEND>>, <<\h11000, \h11000, GCB_SPACING_MARK>>,
    <<\h11001, \h11001, GCB_EXTEND>>, <<\h11002, \h11002, GCB_SPACING_MARK>>,
    <<\h11038, \h11046, GCB_EXTEND>>, <<\h11070, \h11070, GCB_EXTEND>>,
    <<\h11073, \h11074, GCB_EXTEND>>, <<\h1107F, \h11081, GCB_EXTEND>>,
    <<\h11082, \h11082, GCB_SPACING_MARK>>, <<\h110B0, \h110B2, GCB_SPACING_MARK>>,
    <<\h110B3, \h110B6, GCB_EXTEND>>, <<\h110B7, \h110B8, GCB_SPACING_MARK>>,
    <<\h110B9, \h110BA, GCB_EXTEND>>, <<\h110BD, \h110BD, GCB_PREPEND>>,
    <<\h110C2, \h110C2, GCB_EXTEND>>, <<\h110CD, \h110CD, GCB_PREPEND>>,
    <<\h11100, \h11102, GCB_EXTEND>>, <<\h11127, \h1112B, GCB_EXTEND>>,
    <<\h1112C, \h1112C, GCB_SPACING_MARK>>, <<\h1112D, \h11134, GCB_EXTEND>>,
    <<\h11145, \h11146, GCB_SPACING_MARK>>, <<\h11173, \h11173, GCB_EXTEND>>,
    <<\h11180, \h11181, GCB_EXTEND>>, <<\h11182, \h11182, GCB_SPACING_MARK>>,
    <<\h111B3, \h111B5, GCB_SPACING_MARK>>, <<\h111B6, \h111BF, GCB_EXTEND>>,
    <<\h111C0, \h111C0, GCB_EXTEND>>, <<\h111C2, \h111C3, GCB_PREPEND>>,
    <<\h111C9, \h111CF, GCB_EXTEND>>, <<\h1122C, \h1122E, GCB_SPACING_MARK>>,
    <<\h1122F, \h11231, GCB_EXTEND>>, <<\h11232, \h11233, GCB_SPACING_MARK>>,
    <<\h11234, \h11237, GCB_EXTEND>>, <<\h1123E, \h1123E, GCB_EXTEND>>,
    <<\h11241, \h11241, GCB_EXTEND>>, <<\h112DF, \h112DF, GCB_EXTEND>>,
    <<\h112E0, \h112E2, GCB_SPACING_MARK>>, <<\h112E3, \h112EA, GCB_EXTEND>>,
    <<\h11300, \h11301, GCB_EXTEND>>, <<\h11302, \h11303, GCB_SPACING_MARK>>,
    <<\h1133B, \h1133C, GCB_EXTEND>>, <<\h1133E, \h1133E, GCB_EXTEND>>,
    <<\h1133F, \h1133F, GCB_SPACING_MARK>>, <<\h11340, \h11340, GCB_EXTEND>>,
    <<\h11341, \h11344, GCB_SPACING_MARK>>, <<\h11347, \h11348, GCB_SPACING_MARK>>,
    <<\h1134B, \h1134D, GCB_EXTEND>>, <<\h11357, \h11357, GCB_EXTEND>>,
    <<\h11362, \h11363, GCB_SPACING_MARK>>, <<\h11366, \h11374, GCB_EXTEND>>,
    <<\h113B8, \h113C0, GCB_EXTEND>>, <<\h113B9, \h113BA, GCB_SPACING_MARK>>,
    <<\h113C2, \h113D2, GCB_EXTEND>>, <<\h113CA, \h113CD, GCB_SPACING_MARK>>,
    <<\h113D1, \h113D1, GCB_PREPEND>>, <<\h113E1, \h113E2, GCB_EXTEND>>,
    <<\h11435, \h11437, GCB_SPACING_MARK>>, <<\h11438, \h1143F, GCB_EXTEND>>,
    <<\h11440, \h11441, GCB_SPACING_MARK>>, <<\h11442, \h11446, GCB_EXTEND>>,
    <<\h11445, \h11445, GCB_SPACING_MARK>>, <<\h1145E, \h1145E, GCB_EXTEND>>,
    <<\h114B0, \h114B2, GCB_SPACING_MARK>>, <<\h114B3, \h114B8, GCB_EXTEND>>,
    <<\h114B9, \h114B9, GCB_SPACING_MARK>>, <<\h114BA, \h114BA, GCB_EXTEND>>,
    <<\h114BB, \h114BE, GCB_SPACING_MARK>>, <<\h114BF, \h114C3, GCB_EXTEND>>,
    <<\h114C1, \h114C1, GCB_SPACING_MARK>>, <<\h115AF, \h115B1, GCB_SPACING_MARK>>,
    <<\h115B2, \h115B5, GCB_EXTEND>>, <<\h115B8, \h115BB, GCB_SPACING_MARK>>,
    <<\h115BC, \h115C0, GCB_EXTEND>>, <<\h115BE, \h115BE, GCB_SPACING_MARK>>,
    <<\h115DC, \h115DD, GCB_EXTEND>>, <<\h11630, \h11632, GCB_SPACING_MARK>>,
    <<\h11633, \h1163A, GCB_EXTEND>>, <<\h1163B, \h1163C, GCB_SPACING_MARK>>,
    <<\h1163D, \h11640, GCB_EXTEND>>, <<\h1163E, \h1163E, GCB_SPACING_MARK>>,
    <<\h116AB, \h116AB, GCB_EXTEND>>, <<\h116AC, \h116AC, GCB_SPACING_MARK>>,
    <<\h116AD, \h116B7, GCB_EXTEND>>, <<\h116AE, \h116AF, GCB_SPACING_MARK>>,
    <<\h1171D, \h1171F, GCB_EXTEND>>, <<\h1171E, \h1171E, GCB_SPACING_MARK>>,
    <<\h11722, \h11725, GCB_EXTEND>>, <<\h11726, \h11726, GCB_SPACING_MARK>>,
    <<\h11727, \h1172B, GCB_EXTEND>>, <<\h1182C, \h1182E, GCB_SPACING_MARK>>,
    <<\h1182F, \h11837, GCB_EXTEND>>, <<\h11838, \h11838, GCB_SPACING_MARK>>,
    <<\h11839, \h1183A, GCB_EXTEND>>, <<\h11930, \h11935, GCB_SPACING_MARK>>,
    <<\h11937, \h11938, GCB_SPACING_MARK>>, <<\h1193B, \h1193E, GCB_EXTEND>>,
    <<\h1193F, \h1193F, GCB_PREPEND>>, <<\h11940, \h11940, GCB_SPACING_MARK>>,
    <<\h11941, \h11941, GCB_PREPEND>>, <<\h11942, \h11943, GCB_EXTEND>>,
    <<\h119D1, \h119D3, GCB_SPACING_MARK>>, <<\h119D4, \h119DB, GCB_EXTEND>>,
    <<\h119DC, \h119DF, GCB_SPACING_MARK>>, <<\h119E0, \h119E0, GCB_EXTEND>>,
    <<\h119E4, \h119E4, GCB_SPACING_MARK>>, <<\h11A01, \h11A0A, GCB_EXTEND>>,
    <<\h11A33, \h11A38, GCB_EXTEND>>, <<\h11A39, \h11A39, GCB_SPACING_MARK>>,
    <<\h11A3B, \h11A47, GCB_EXTEND>>, <<\h11A51, \h11A56, GCB_EXTEND>>,
    <<\h11A57, \h11A58, GCB_SPACING_MARK>>, <<\h11A59, \h11A5B, GCB_EXTEND>>,
    <<\h11A84, \h11A89, GCB_PREPEND>>, <<\h11A8A, \h11A99, GCB_EXTEND>>,
    <<\h11A97, \h11A97, GCB_SPACING_MARK>>, <<\h11B60, \h11B67, GCB_EXTEND>>,
    <<\h11C2F, \h11C2F, GCB_SPACING_MARK>>, <<\h11C30, \h11C3F, GCB_EXTEND>>,
    <<\h11C3E, \h11C3E, GCB_SPACING_MARK>>, <<\h11C92, \h11CB6, GCB_EXTEND>>,
    <<\h11CA9, \h11CA9, GCB_SPACING_MARK>>, <<\h11CB1, \h11CB1, GCB_SPACING_MARK>>,
    <<\h11CB4, \h11CB4, GCB_SPACING_MARK>>, <<\h11D31, \h11D47, GCB_EXTEND>>,
    <<\h11D46, \h11D46, GCB_PREPEND>>, <<\h11D8A, \h11D8E, GCB_SPACING_MARK>>,
    <<\h11D90, \h11D97, GCB_EXTEND>>, <<\h11D93, \h11D94, GCB_SPACING_MARK>>,
    <<\h11D96, \h11D96, GCB_SPACING_MARK>>, <<\h11EF3, \h11EF6, GCB_EXTEND>>,
    <<\h11EF5, \h11EF6, GCB_SPACING_MARK>>, <<\h11F00, \h11F01, GCB_EXTEND>>,
    <<\h11F02, \h11F02, GCB_PREPEND>>, <<\h11F03, \h11F03, GCB_SPACING_MARK>>,
    <<\h11F34, \h11F35, GCB_SPACING_MARK>>, <<\h11F36, \h11F42, GCB_EXTEND>>,
    <<\h11F3E, \h11F3F, GCB_SPACING_MARK>>, <<\h11F5A, \h11F5A, GCB_EXTEND>>,
    <<\h13430, \h1343F, GCB_CONTROL>>, <<\h13440, \h13455, GCB_EXTEND>>,
    <<\h1611E, \h1612F, GCB_EXTEND>>, <<\h1612A, \h1612C, GCB_SPACING_MARK>>,
    <<\h16AF0, \h16AF4, GCB_EXTEND>>, <<\h16B30, \h16B36, GCB_EXTEND>>,
    <<\h16D63, \h16D63, GCB_V>>, <<\h16D67, \h16D6A, GCB_V>>,
    <<\h16F4F, \h16F4F, GCB_EXTEND>>, <<\h16F51, \h16F87, GCB_SPACING_MARK>>,
    <<\h16F8F, \h16F92, GCB_EXTEND>>, <<\h16FE4, \h16FE4, GCB_EXTEND>>,
    <<\h16FF0, \h16FF1, GCB_EXTEND>>, <<\h1BC9D, \h1BC9E, GCB_EXTEND>>,
    <<\h1BCA0, \h1BCA3, GCB_CONTROL>>, <<\h1CF00, \h1CF46, GCB_EXTEND>>,
    <<\h1D165, \h1D172, GCB_EXTEND>>, <<\h1D173, \h1D17A, GCB_CONTROL>>,
    <<\h1D17B, \h1D1AD, GCB_EXTEND>>, <<\h1D242, \h1D244, GCB_EXTEND>>,
    <<\h1DA00, \h1DA36, GCB_EXTEND>>, <<\h1DA3B, \h1DA6C, GCB_EXTEND>>,
    <<\h1DA75, \h1DA75, GCB_EXTEND>>, <<\h1DA84, \h1DA84, GCB_EXTEND>>,
    <<\h1DA9B, \h1DAAF, GCB_EXTEND>>, <<\h1E000, \h1E02A, GCB_EXTEND>>,
    <<\h1E08F, \h1E08F, GCB_EXTEND>>, <<\h1E130, \h1E136, GCB_EXTEND>>,
    <<\h1E2AE, \h1E2AE, GCB_EXTEND>>, <<\h1E2EC, \h1E2EF, GCB_EXTEND>>,
    <<\h1E4EC, \h1E4EF, GCB_EXTEND>>, <<\h1E5EE, \h1E5EF, GCB_EXTEND>>,
    <<\h1E6E3, \h1E6F5, GCB_EXTEND>>, <<\h1E8D0, \h1E8D6, GCB_EXTEND>>,
    <<\h1E944, \h1E94A, GCB_EXTEND>>, <<\h1F1E6, \h1F1FF, GCB_REGIONAL_INDICATOR>>,
    <<\h1F3FB, \h1F3FF, GCB_EXTEND>>, <<\hE0000, \hE0FFF, GCB_CONTROL>>,
    <<\hE0020, \hE007F, GCB_EXTEND>>, <<\hE0100, \hE01EF, GCB_EXTEND>>
>>

INCB_LINKERS == <<
    \h094D, \h09CD, \h0ACD, \h0B4D, \h0C4D, \h0D4D, \h1039, \h103A,
    \h1714, \h1715, \h17D2, \h1A60, \h1B44, \h1BAA, \h1BAB, \hA806,
    \hA8C4, \hA9C0, \hAAF6, \h10A3F, \h11046, \h110B9, \h11133, \h11134,
    \h111C0, \h11235, \h1134D, \h11442, \h114C2, \h115BF, \h1163F, \h116B6,
    \h1172B, \h11839, \h119E0, \h11A34, \h11A47, \h11A99, \h11C3F, \h11D45,
    \h11D97, \h11F41, \h11F42
>>

INCB_CONSONANTS == <<
    <<\h0915, \h0939>>, <<\h0958, \h095F>>, <<\h0978, \h097F>>, <<\h0995, \h09A8>>,
    <<\h09AA, \h09B0>>, <<\h09B2, \h09B2>>, <<\h09B6, \h09B9>>, <<\h09DC, \h09DD>>,
    <<\h09DF, \h09E1>>, <<\h09F0, \h09F1>>, <<\h0A15, \h0A28>>, <<\h0A2A, \h0A30>>,
    <<\h0A32, \h0A33>>, <<\h0A35, \h0A36>>, <<\h0A38, \h0A39>>, <<\h0A59, \h0A5C>>,
    <<\h0A5E, \h0A5E>>, <<\h0A72, \h0A74>>, <<\h0A95, \h0AA8>>, <<\h0AAA, \h0AB0>>,
    <<\h0AB2, \h0AB3>>, <<\h0AB5, \h0AB9>>, <<\h0AE0, \h0AE1>>, <<\h0B15, \h0B28>>,
    <<\h0B2A, \h0B30>>, <<\h0B32, \h0B33>>, <<\h0B35, \h0B39>>, <<\h0B5C, \h0B5D>>,
    <<\h0B5F, \h0B61>>, <<\h0B71, \h0B71>>, <<\h0B95, \h0B95>>, <<\h0B99, \h0B9A>>,
    <<\h0B9C, \h0B9C>>, <<\h0B9E, \h0B9F>>, <<\h0BA3, \h0BA4>>, <<\h0BA8, \h0BAA>>,
    <<\h0BAE, \h0BB9>>, <<\h0C15, \h0C28>>, <<\h0C2A, \h0C39>>, <<\h0C58, \h0C5A>>,
    <<\h0C5D, \h0C5D>>, <<\h0C60, \h0C61>>, <<\h0C95, \h0CA8>>, <<\h0CAA, \h0CB3>>,
    <<\h0CB5, \h0CB9>>, <<\h0CDD, \h0CDE>>, <<\h0CE0, \h0CE1>>, <<\h0D15, \h0D3A>>,
    <<\h0D54, \h0D56>>, <<\h0D5F, \h0D61>>, <<\h0D7A, \h0D7F>>, <<\h1000, \h1025>>,
    <<\h1027, \h1027>>, <<\h1029, \h102A>>, <<\h1050, \h1055>>, <<\h105A, \h105D>>,
    <<\h1061, \h1061>>, <<\h1065, \h1066>>, <<\h106E, \h1070>>, <<\h1075, \h1081>>,
    <<\h108E, \h108E>>, <<\h1703, \h170C>>, <<\h170E, \h1711>>, <<\h1780, \h17A2>>,
    <<\h17A5, \h17A7>>, <<\h17A9, \h17B3>>, <<\h1901, \h1922>>, <<\h1930, \h1931>>,
    <<\h1950, \h196D>>, <<\h1980, \h19A9>>, <<\h19C1, \h19C7>>, <<\h1A00, \h1A16>>,
    <<\h1A20, \h1A4C>>, <<\h1B05, \h1B33>>, <<\h1B83, \h1BA0>>, <<\hA807, \hA80A>>,
    <<\hA80C, \hA822>>, <<\hA882, \hA8B3>>, <<\hA90A, \hA925>>, <<\hA930, \hA946>>,
    <<\hA989, \hA98B>>, <<\hA98D, \hA9B2>>, <<\hAA00, \hAA28>>, <<\hAA60, \hAA6F>>,
    <<\hAA71, \hAA76>>, <<\hAAE0, \hAAEA>>, <<\h10A00, \h10A00>>, <<\h10A10, \h10A13>>,
    <<\h10A15, \h10A17>>, <<\h10A19, \h10A35>>, <<\h11005, \h11037>>, <<\h11071, \h11072>>,
    <<\h11075, \h11075>>, <<\h11083, \h110AF>>, <<\h11107, \h1112B>>, <<\h11150, \h11172>>,
    <<\h11183, \h111B2>>, <<\h111C1, \h111C4>>, <<\h11200, \h11211>>, <<\h11213, \h1122B>>,
    <<\h1123F, \h11240>>, <<\h11284, \h11286>>, <<\h11288, \h11288>>, <<\h1128A, \h1128D>>,
    <<\h1128F, \h1129D>>, <<\h1129F, \h112A8>>, <<\h11305, \h1130C>>, <<\h1130F, \h11310>>,
    <<\h11313, \h11328>>, <<\h1132A, \h11330>>, <<\h11332, \h11333>>, <<\h11335, \h11339>>,
    <<\h1135D, \h11361>>, <<\h11400, \h11434>>, <<\h11447, \h1144A>>, <<\h11481, \h114AF>>,
    <<\h114C4, \h114C5>>, <<\h114C7, \h114C7>>, <<\h11580, \h115AE>>, <<\h115D8, \h115DB>>,
    <<\h11600, \h1162F>>, <<\h11644, \h11644>>, <<\h11680, \h116AA>>, <<\h116B8, \h116B8>>,
    <<\h11700, \h1171A>>, <<\h11800, \h1182B>>, <<\h11912, \h11935>>, <<\h11937, \h11938>>,
    <<\h119A0, \h119A7>>, <<\h119AA, \h119D0>>, <<\h11A0B, \h11A32>>, <<\h11A5C, \h11A89>>,
    <<\h11C00, \h11C08>>, <<\h11C0A, \h11C2E>>, <<\h11C72, \h11C8F>>, <<\h11D00, \h11D06>>,
    <<\h11D08, \h11D09>>, <<\h11D0B, \h11D30>>, <<\h11D60, \h11D65>>, <<\h11D67, \h11D68>>,
    <<\h11D6A, \h11D89>>, <<\h11EE0, \h11EF2>>, <<\h11F02, \h11F02>>, <<\h11F04, \h11F10>>,
    <<\h11F12, \h11F33>>
>>

ZERO_WIDTH_COUNT == Len(ZERO_WIDTH_RANGES)
DOUBLE_WIDTH_COUNT == Len(DOUBLE_WIDTH_RANGES)
GCB_RANGE_COUNT == Len(GCB_RANGES)
INCB_LINKER_COUNT == Len(INCB_LINKERS)
INCB_CONSONANT_COUNT == Len(INCB_CONSONANTS)

---------------------------------------------------------------------------
(* Property lookups *)

\* The loop of unicode_range_contains; ranges[mid] is element mid + 1.
RECURSIVE RangeSearch(_, _, _, _)
RangeSearch(cp, ranges, low, high) ==
    IF low <= high
    THEN LET mid == (low + high) \div 2 IN
         IF cp < RangeStart(ranges[mid + 1])
         THEN RangeSearch(cp, ranges, low, mid - 1)
         ELSE IF cp > RangeEnd(ranges[mid + 1])
         THEN RangeSearch(cp, ranges, mid + 1, high)
         ELSE 1
    ELSE 0

unicode_range_contains(cp, ranges, count) == RangeSearch(cp, ranges, 0, count - 1)

\* The loop of get_gcb.
RECURSIVE GcbSearch(_, _, _, _)
GcbSearch(cp, ranges, low, high) ==
    IF low <= high
    THEN LET mid == (low + high) \div 2 IN
         IF cp < RangeStart(ranges[mid + 1])
         THEN GcbSearch(cp, ranges, low, mid - 1)
         ELSE IF cp > RangeEnd(ranges[mid + 1])
         THEN GcbSearch(cp, ranges, mid + 1, high)
         ELSE RangeProperty(ranges[mid + 1])
    ELSE GCB_OTHER

get_gcb(cp) ==
    IF cp >= HANGUL_SBASE /\ cp <= HANGUL_SEND
    THEN IF (cp - HANGUL_SBASE) % HANGUL_TCOUNT = 0 THEN GCB_LV ELSE GCB_LVT
    ELSE GcbSearch(cp, GCB_RANGES, 0, GCB_RANGE_COUNT - 1)

is_extended_pictographic(cp) ==
    unicode_range_contains(cp, DOUBLE_WIDTH_RANGES, DOUBLE_WIDTH_COUNT)

\* The loop of is_incb_linker.
RECURSIVE LinkerSearch(_, _, _, _)
LinkerSearch(cp, linkers, low, high) ==
    IF low <= high
    THEN LET mid == (low + high) \div 2 IN
         IF cp < linkers[mid + 1]
         THEN LinkerSearch(cp, linkers, low, mid - 1)
         ELSE IF cp > linkers[mid + 1]
         THEN LinkerSearch(cp, linkers, mid + 1, high)
         ELSE 1
    ELSE 0

is_incb_linker(cp) == LinkerSearch(cp, INCB_LINKERS, 0, INCB_LINKER_COUNT - 1)

is_incb_consonant(cp) ==
    unicode_range_contains(cp, INCB_CONSONANTS, INCB_CONSONANT_COUNT)

---------------------------------------------------------------------------
(* Display width *)

\* Mutant: the C1 controls fall through to the tables.
utflite_codepoint_width_no_c1(cp) ==
    IF cp < \h20 THEN (IF cp = 0 THEN 0 ELSE -1)
    ELSE IF cp < \h7F THEN 1
    ELSE IF cp = \h7F THEN -1
    ELSE IF cp = \h00AD THEN 1
    ELSE IF unicode_range_contains(cp, ZERO_WIDTH_RANGES, ZERO_WIDTH_COUNT) = 1 THEN 0
    ELSE IF unicode_range_contains(cp, DOUBLE_WIDTH_RANGES, DOUBLE_WIDTH_COUNT) = 1 THEN 2
    ELSE 1

utflite_codepoint_width(cp) ==
    IF cp < \h20 THEN (IF cp = 0 THEN 0 ELSE -1)
    ELSE IF cp < \h7F THEN 1
    ELSE IF cp = \h7F THEN -1
    ELSE IF cp < \hA0 THEN -1
    ELSE IF cp = \h00AD THEN 1
    ELSE IF unicode_range_contains(cp, ZERO_WIDTH_RANGES, ZERO_WIDTH_COUNT) = 1 THEN 0
    ELSE IF unicode_range_contains(cp, DOUBLE_WIDTH_RANGES, DOUBLE_WIDTH_COUNT) = 1 THEN 2
    ELSE 1

utflite_is_zero_width(cp) ==
    unicode_range_contains(cp, ZERO_WIDTH_RANGES, ZERO_WIDTH_COUNT)

utflite_is_wide(cp) ==
    unicode_range_contains(cp, DOUBLE_WIDTH_RANGES, DOUBLE_WIDTH_COUNT)

---------------------------------------------------------------------------
(* The property functions alone: one call on one codepoint. *)

\* How far around each table boundary the sampled codepoints reach.
Margin == 1

Around(cp) == {c \in (cp - Margin) .. (cp + Margin) : c >= 0}

RangeEdges(ranges) ==
    UNION {Around(RangeStart(ranges[i])) \cup Around(RangeEnd(ranges[i])) :
           i \in 1 .. Len(ranges)}

\* Every codepoint up to U+0100, the neighbourhood of every table boundary,
\* and values beyond the codespace (TLC's integers end at 2^31 - 1).
HangulSamples == {HANGUL_SBASE + i : i \in 0 .. 2 * HANGUL_TCOUNT}

PropertySamples ==
    (0 .. \h100)
    \cup HangulSamples
    \cup RangeEdges(ZERO_WIDTH_RANGES)
    \cup RangeEdges(DOUBLE_WIDTH_RANGES)
    \cup RangeEdges(GCB_RANGES)
    \cup RangeEdges(INCB_CONSONANTS)
    \cup UNION {Around(INCB_LINKERS[i]) : i \in 1 .. Len(INCB_LINKERS)}
    \cup Around(HANGUL_SBASE) \cup Around(HANGUL_SEND)
    \cup {\h110000, \h7FFFFFFF}

InitProperty ==
    /\ text = <<>>
    /\ offset = 0
    /\ op = "init"
    /\ arg = 0
    /\ start = 0
    /\ steps = 0
    /\ length = 0
    /\ codepoint \in PropertySamples
    /\ bytes = 0
    /\ reads = {}
    /\ buffer = <<>>
    /\ before = <<>>
    /\ valid = 1
    /\ error_offset = NoOffset
    /\ result = 0
    /\ frame = NoFrame

\* result = f(codepoint) for one of the functions of one codepoint.
PropertyCall_(name, value) ==
    /\ op = "init"
    /\ op' = name
    /\ result' = value
    /\ UNCHANGED <<text, offset, arg, start, steps, length, codepoint, bytes,
                   reads, buffer, before, valid, error_offset, frame>>

CodepointWidth == PropertyCall_("codepoint_width", utflite_codepoint_width(codepoint))

IsZeroWidth == PropertyCall_("is_zero_width", utflite_is_zero_width(codepoint))

IsWide == PropertyCall_("is_wide", utflite_is_wide(codepoint))

GetGcb == PropertyCall_("get_gcb", get_gcb(codepoint))

IsIncbLinker == PropertyCall_("is_incb_linker", is_incb_linker(codepoint))

IsIncbConsonant == PropertyCall_("is_incb_consonant", is_incb_consonant(codepoint))

NextProperty ==
    \/ CodepointWidth
    \/ IsZeroWidth
    \/ IsWide
    \/ GetGcb
    \/ IsIncbLinker
    \/ IsIncbConsonant

SpecProperty == InitProperty /\ [][NextProperty]_vars

---------------------------------------------------------------------------
(* The tables, read entry by entry and not by the searches. *)

InRanges(cp, ranges) ==
    \E i \in 1 .. Len(ranges) :
        RangeStart(ranges[i]) <= cp /\ cp <= RangeEnd(ranges[i])

InList(cp, list) == \E i \in 1 .. Len(list) : list[i] = cp

\* The categories of the GCB entries that contain cp.
GcbCategories(cp) ==
    {RangeProperty(GCB_RANGES[i]) :
        i \in {j \in 1 .. GCB_RANGE_COUNT :
                  /\ RangeStart(GCB_RANGES[j]) <= cp
                  /\ cp <= RangeEnd(GCB_RANGES[j])}}

IsHangulSyllable(cp) == cp >= HANGUL_SBASE /\ cp <= HANGUL_SEND

\* C16: utflite_codepoint_width is -1 on 0x01..0x1F, 0x7F and 0x80..0x9F,
\* 0 on NUL and on the zero-width table, 1 on U+00AD, 2 on the double-width
\* table outside the zero-width table, and 1 elsewhere; from 0xA0 on the
\* width is 0 exactly when utflite_is_zero_width holds, and width 2 implies
\* utflite_is_wide.
C16_CodepointWidthClasses ==
    op = "codepoint_width" =>
        LET cp == codepoint IN
        /\ result \in {-1, 0, 1, 2}
        /\ result = (IF cp \in (1 .. \h1F) \cup (\h7F .. \h9F) THEN -1
                     ELSE IF cp = 0 THEN 0
                     ELSE IF cp = \hAD THEN 1
                     ELSE IF InRanges(cp, ZERO_WIDTH_RANGES) THEN 0
                     ELSE IF InRanges(cp, DOUBLE_WIDTH_RANGES) THEN 2
                     ELSE 1)
        /\ cp >= \hA0 => (result = 0 <=> utflite_is_zero_width(cp) = 1)
        /\ result = 2 => utflite_is_wide(cp) = 1

\* C16 witness: the width of a codepoint of the double-width table was
\* asked for and is 2.
C16_Witness ==
    /\ op = "codepoint_width"
    /\ InRanges(codepoint, DOUBLE_WIDTH_RANGES)
    /\ ~InRanges(codepoint, ZERO_WIDTH_RANGES)
    /\ result = 2

\* Ranges ascending by start and pairwise disjoint.
SortedRanges(ranges) ==
    \A i \in 1 .. Len(ranges) :
        /\ RangeStart(ranges[i]) <= RangeEnd(ranges[i])
        /\ i < Len(ranges) => RangeEnd(ranges[i]) < RangeStart(ranges[i + 1])

SortedList(list) == \A i \in 1 .. Len(list) - 1 : list[i] < list[i + 1]

\* The linear scan of the GCB table: the first entry that contains cp.
ScanGcb(cp) ==
    LET hits == {j \in 1 .. GCB_RANGE_COUNT :
                    /\ RangeStart(GCB_RANGES[j]) <= cp
                    /\ cp <= RangeEnd(GCB_RANGES[j])}
    IN IF hits = {} THEN GCB_OTHER
       ELSE RangeProperty(GCB_RANGES[CHOOSE j \in hits : \A k \in hits : j <= k])

Bool(b) == IF b THEN 1 ELSE 0

\* C20: every property table is sorted ascending by start and pairwise
\* non-overlapping, so each binary-search lookup returns what a linear scan
\* of its table returns, and the GCB table holds at most one category for
\* each codepoint.
C20_TablesSortedSearchAgrees ==
    /\ op = "is_zero_width" =>
           /\ SortedRanges(ZERO_WIDTH_RANGES)
           /\ result = Bool(InRanges(codepoint, ZERO_WIDTH_RANGES))
    /\ op = "is_wide" =>
           /\ SortedRanges(DOUBLE_WIDTH_RANGES)
           /\ result = Bool(InRanges(codepoint, DOUBLE_WIDTH_RANGES))
    /\ op = "is_incb_consonant" =>
           /\ SortedRanges(INCB_CONSONANTS)
           /\ result = Bool(InRanges(codepoint, INCB_CONSONANTS))
    /\ op = "is_incb_linker" =>
           /\ SortedList(INCB_LINKERS)
           /\ result = Bool(InList(codepoint, INCB_LINKERS))
    /\ (op = "get_gcb" /\ ~IsHangulSyllable(codepoint)) =>
           /\ SortedRanges(GCB_RANGES)
           /\ result = ScanGcb(codepoint)
           /\ Cardinality(GcbCategories(codepoint)) <= 1

\* C20 witness: U+11446 lies in the entry 11442..11446 of the GCB table and get_gcb
\* returned GCB_OTHER for it.
C20_MissedEntry ==
    /\ op = "get_gcb"
    /\ codepoint = \h11446
    /\ GcbCategories(codepoint) = {GCB_EXTEND}
    /\ result = GCB_OTHER

---------------------------------------------------------------------------
(* Widths of strings *)

utflite_char_width(txt, len, off) ==
    IF off >= len THEN 0
    ELSE utflite_codepoint_width(utflite_decode(Advance(txt, off), len - off).codepoint)

\* The loop of utflite_codepoint_count.
RECURSIVE CountFrom(_, _, _, _)
CountFrom(txt, len, off, count) ==
    IF off < len
    THEN CountFrom(txt, len, utflite_next_char(txt, len, off).offset, count + 1)
    ELSE count

utflite_codepoint_count(txt, len) == CountFrom(txt, len, 0, 0)

\* Mutant: negative widths are added too.
RECURSIVE StringWidthFromSigned(_, _, _, _)
StringWidthFromSigned(txt, len, off, width) ==
    IF off < len
    THEN StringWidthFromSigned(txt, len, utflite_next_char(txt, len, off).offset,
                               width + utflite_char_width(txt, len, off))
    ELSE width

\* The loop of utflite_string_width.
RECURSIVE StringWidthFrom(_, _, _, _)
StringWidthFrom(txt, len, off, width) ==
    IF off < len
    THEN LET char_width == utflite_char_width(txt, len, off) IN
         StringWidthFrom(txt, len, utflite_next_char(txt, len, off).offset,
                         IF char_width > 0 THEN width + char_width ELSE width)
    ELSE width

utflite_string_width(txt, len) == StringWidthFrom(txt, len, 0, 0)

\* Mutant: a character that exactly fills max_cols is cut off.
RECURSIVE TruncateFromTight(_, _, _, _, _)
TruncateFromTight(txt, len, max_cols, off, width) ==
    IF off < len
    THEN LET char_width == utflite_char_width(txt, len, off) IN
         IF char_width > 0 /\ width + char_width >= max_cols
         THEN off
         ELSE TruncateFromTight(txt, len, max_cols,
                                utflite_next_char(txt, len, off).offset,
                                IF char_width > 0 THEN width + char_width ELSE width)
    ELSE len

\* The loop of utflite_truncate.
RECURSIVE TruncateFrom(_, _, _, _, _)
TruncateFrom(txt, len, max_cols, off, width) ==
    IF off < len
    THEN LET char_width == utflite_char_width(txt, len, off) IN
         IF char_width > 0 /\ width + char_width > max_cols
         THEN off
         ELSE TruncateFrom(txt, len, max_cols,
                           utflite_next_char(txt, len, off).offset,
                           IF char_width > 0 THEN width + char_width ELSE width)
    ELSE len

utflite_truncate(txt, len, max_cols) == TruncateFrom(txt, len, max_cols, 0, 0)

---------------------------------------------------------------------------
(* A caller measuring and truncating a buffer. *)

\* The number of pieces a measured buffer is made of.
MaxWidthChunks == 3

\* The widest column limit asked for.
MaxCols == 7

\* One piece per width class: 'A' (1), U+4E2D (2), U+0301 (0), BEL (-1),
\* NUL (0), U+00AD (1), U+0085 (-1), U+1F600 (2), a stray continuation byte
\* and a truncated sequence.
WidthChunks ==
    { <<\h41>>, <<\hE4, \hB8, \hAD>>, <<\hCC, \h81>>, <<\h07>>, <<\h00>>,
      <<\hC2, \hAD>>, <<\hC2, \h85>>, <<\hF0, \h9F, \h98, \h80>>,
      <<\h80>>, <<\hE4, \hB8>> }

RECURSIVE WidthTextsOf(_)
WidthTextsOf(n) ==
    IF n = 0 THEN {<<>>}
    ELSE LET shorter == WidthTextsOf(n - 1)
         IN shorter \cup {t \o c : t \in shorter, c \in WidthChunks}

\* The buffer of the README's truncation example, AB and two CJK glyphs
\* and CD, and the same buffer without AB.
ReadmeTruncateText ==
    <<\h41, \h42, \hE4, \hB8, \hAD, \hE4, \hB8, \hAD, \h43, \h44>>

GlyphsThenLetters == <<\hE4, \hB8, \hAD, \hE4, \hB8, \hAD, \h43, \h44>>

WidthTexts ==
    WidthTextsOf(MaxWidthChunks) \cup {ReadmeTruncateText, GlyphsThenLetters}

InitWidth ==
    /\ text \in WidthTexts
    /\ offset = 0
    /\ op = "init"
    /\ arg = 0
    /\ start = 0
    /\ steps = 0
    /\ length = 0
    /\ codepoint = 0
    /\ bytes = 0
    /\ reads = {}
    /\ buffer = <<>>
    /\ before = <<>>
    /\ valid = 1
    /\ error_offset = NoOffset
    /\ result = 0
    /\ frame = NoFrame

\* result = f(text, length, arg) for one of the functions of a whole buffer.
TextCall_(name, a, value) ==
    /\ op = "init"
    /\ op' = name
    /\ arg' = a
    /\ length' = Len(text)
    /\ result' = value
    /\ UNCHANGED <<text, offset, start, steps, codepoint, bytes, reads,
                   buffer, before, valid, error_offset, frame>>

CodepointCount == TextCall_("codepoint_count", 0, utflite_codepoint_count(text, Len(text)))

StringWidth == TextCall_("string_width", 0, utflite_string_width(text, Len(text)))

Truncate ==
    \E max_cols \in 0 .. MaxCols :
        TextCall_("truncate", max_cols, utflite_truncate(text, Len(text), max_cols))

NextWidth == CodepointCount \/ StringWidth \/ Truncate

SpecWidth == InitWidth /\ [][NextWidth]_vars

---------------------------------------------------------------------------
(* Claims about widths of strings *)

\* The codepoints met when stepping from off by decode, as <<offset, value>>.
DecodedCodepoints(t, len, off) ==
    {<<b, utflite_decode(Advance(t, b), len - b).codepoint>> :
        b \in DecodeBoundaries(t, len, off)}

RECURSIVE SumOf(_, _)
SumOf(f, S) ==
    IF S = {} THEN 0
    ELSE LET x == CHOOSE y \in S : TRUE IN f[x] + SumOf(f, S \ {x})

\* The sum of the non-negative widths of the codepoints of the buffer.
WidthSum(t, len) ==
    LET cps == DecodedCodepoints(t, len, 0)
        w == [c \in cps |-> Max(0, utflite_codepoint_width(c[2]))]
    IN SumOf(w, cps)

\* The offsets reached by iterating utflite_next_char from off.
RECURSIVE NextCharBoundaries(_, _, _)
NextCharBoundaries(t, len, off) ==
    IF off >= len THEN {len}
    ELSE {off} \cup NextCharBoundaries(t, len, utflite_next_char(t, len, off).offset)

\* C14: utflite_string_width(text, L) is the sum of max(0,
\* utflite_codepoint_width(cp)) over the codepoints met by stepping through
\* the buffer with decode from offset 0; it is never negative.
C14_WidthAdditivity ==
    op = "string_width" =>
        /\ result = WidthSum(text, Len(text))
        /\ result >= 0

\* C14 witness: the width of a buffer holding a control character, a
\* zero-width mark and a wide character was measured.
C14_Witness ==
    /\ op = "string_width"
    /\ \E b \in DOMAIN text : text[b] = \h07
    /\ \E b \in 1 .. Len(text) - 1 : text[b] = \hCC /\ text[b + 1] = \h81
    /\ \E b \in 1 .. Len(text) - 2 : text[b] = \hE4 /\ text[b + 1] = \hB8 /\ text[b + 2] = \hAD
    /\ result = 2

\* C15: for max_cols >= 0, r = utflite_truncate(text, L, max_cols) is a
\* position reached by iterating utflite_next_char from 0; the prefix of
\* length r is at most max_cols wide; when r < L the prefix extended by the
\* character at r is wider than max_cols; and r = L exactly when the whole
\* buffer is at most max_cols wide.
C15_TruncateBoundary ==
    op = "truncate" =>
        LET L == Len(text)
            max_cols == arg
            r == result
        IN /\ r \in NextCharBoundaries(text, L, 0)
           /\ utflite_string_width(text, r) <= max_cols
           /\ r < L =>
                  utflite_string_width(text, utflite_next_char(text, L, r).offset)
                      > max_cols
           /\ r = L <=> utflite_string_width(text, L) <= max_cols

\* C15 witness: a buffer was cut in front of a wide character that would
\* have exceeded the limit by one column, after a character that fills it to
\* one column short.
C15_Witness ==
    /\ op = "truncate"
    /\ result > 0
    /\ result < Len(text)
    /\ utflite_string_width(text, result) = arg - 1
    /\ utflite_char_width(text, Len(text), result) = 2

---------------------------------------------------------------------------
(* Grapheme cluster navigation *)

\* Mutant: GB11 is left out.
is_grapheme_break_no_gb11(prev_prop, curr_prop, ri_count, in_ext_pict, curr_cp, incb_state) ==
    IF prev_prop = GCB_CR /\ curr_prop = GCB_LF THEN 0
    ELSE IF prev_prop \in {GCB_CONTROL, GCB_CR, GCB_LF} THEN 1
    ELSE IF curr_prop \in {GCB_CONTROL, GCB_CR, GCB_LF} THEN 1
    ELSE IF prev_prop = GCB_L /\ curr_prop \in {GCB_L, GCB_V, GCB_LV, GCB_LVT} THEN 0
    ELSE IF prev_prop \in {GCB_LV, GCB_V} /\ curr_prop \in {GCB_V, GCB_T} THEN 0
    ELSE IF prev_prop \in {GCB_LVT, GCB_T} /\ curr_prop = GCB_T THEN 0
    ELSE IF curr_prop \in {GCB_EXTEND, GCB_ZWJ} THEN 0
    ELSE IF curr_prop = GCB_SPACING_MARK THEN 0
    ELSE IF prev_prop = GCB_PREPEND THEN 0
    ELSE IF incb_state = 2 /\ is_incb_consonant(curr_cp) # 0 THEN 0
    ELSE IF prev_prop = GCB_REGIONAL_INDICATOR /\ curr_prop = GCB_REGIONAL_INDICATOR
         THEN (IF ri_count % 2 = 0 THEN 1 ELSE 0)
    ELSE 1

\* Mutant: two regional indicators never break.
is_grapheme_break_ri_joined(prev_prop, curr_prop, ri_count, in_ext_pict, curr_cp, incb_state) ==
    IF prev_prop = GCB_CR /\ curr_prop = GCB_LF THEN 0
    ELSE IF prev_prop \in {GCB_CONTROL, GCB_CR, GCB_LF} THEN 1
    ELSE IF curr_prop \in {GCB_CONTROL, GCB_CR, GCB_LF} THEN 1
    ELSE IF prev_prop = GCB_L /\ curr_prop \in {GCB_L, GCB_V, GCB_LV, GCB_LVT} THEN 0
    ELSE IF prev_prop \in {GCB_LV, GCB_V} /\ curr_prop \in {GCB_V, GCB_T} THEN 0
    ELSE IF prev_prop \in {GCB_LVT, GCB_T} /\ curr_prop = GCB_T THEN 0
    ELSE IF curr_prop \in {GCB_EXTEND, GCB_ZWJ} THEN 0
    ELSE IF curr_prop = GCB_SPACING_MARK THEN 0
    ELSE IF prev_prop = GCB_PREPEND THEN 0
    ELSE IF incb_state = 2 /\ is_incb_consonant(curr_cp) # 0 THEN 0
    ELSE IF in_ext_pict # 0 /\ prev_prop = GCB_ZWJ /\ is_extended_pictographic(curr_cp) # 0
         THEN 0
    ELSE IF prev_prop = GCB_REGIONAL_INDICATOR /\ curr_prop = GCB_REGIONAL_INDICATOR
         THEN 0
    ELSE 1

\* Mutant: the rules GB9 and GB9a are tried before GB4 and GB5.
is_grapheme_break_extend_first(prev_prop, curr_prop, ri_count, in_ext_pict, curr_cp, incb_state) ==
    \* GB3: CR x LF
    IF prev_prop = GCB_CR /\ curr_prop = GCB_LF THEN 0
    \* GB9: x (Extend | ZWJ)
    ELSE IF curr_prop \in {GCB_EXTEND, GCB_ZWJ} THEN 0
    \* GB9a: x SpacingMark
    ELSE IF curr_prop = GCB_SPACING_MARK THEN 0
    \* GB4: (Control | CR | LF) /
    ELSE IF prev_prop \in {GCB_CONTROL, GCB_CR, GCB_LF} THEN 1
    \* GB5: / (Control | CR | LF)
    ELSE IF curr_prop \in {GCB_CONTROL, GCB_CR, GCB_LF} THEN 1
    \* GB6: L x (L | V | LV | LVT)
    ELSE IF prev_prop = GCB_L /\ curr_prop \in {GCB_L, GCB_V, GCB_LV, GCB_LVT} THEN 0
    \* GB7: (LV | V) x (V | T)
    ELSE IF prev_prop \in {GCB_LV, GCB_V} /\ curr_prop \in {GCB_V, GCB_T} THEN 0
    \* GB8: (LVT | T) x T
    ELSE IF prev_prop \in {GCB_LVT, GCB_T} /\ curr_prop = GCB_T THEN 0
    \* GB9b: Prepend x
    ELSE IF prev_prop = GCB_PREPEND THEN 0
    \* GB9c
    ELSE IF incb_state = 2 /\ is_incb_consonant(curr_cp) # 0 THEN 0
    \* GB11
    ELSE IF in_ext_pict # 0 /\ prev_prop = GCB_ZWJ /\ is_extended_pictographic(curr_cp) # 0
         THEN 0
    \* GB12/GB13
    ELSE IF prev_prop = GCB_REGIONAL_INDICATOR /\ curr_prop = GCB_REGIONAL_INDICATOR
         THEN (IF ri_count % 2 = 0 THEN 1 ELSE 0)
    \* GB999
    ELSE 1

\* Mutant: rule 7 (LV | V) x (V | T) is missing.
is_grapheme_break_no_gb7(prev_prop, curr_prop, ri_count, in_ext_pict, curr_cp, incb_state) ==
    \* GB3: CR x LF
    IF prev_prop = GCB_CR /\ curr_prop = GCB_LF THEN 0
    \* GB4: (Control | CR | LF) /
    ELSE IF prev_prop \in {GCB_CONTROL, GCB_CR, GCB_LF} THEN 1
    \* GB5: / (Control | CR | LF)
    ELSE IF curr_prop \in {GCB_CONTROL, GCB_CR, GCB_LF} THEN 1
    \* GB6: L x (L | V | LV | LVT)
    ELSE IF prev_prop = GCB_L /\ curr_prop \in {GCB_L, GCB_V, GCB_LV, GCB_LVT} THEN 0
    \* GB8: (LVT | T) x T
    ELSE IF prev_prop \in {GCB_LVT, GCB_T} /\ curr_prop = GCB_T THEN 0
    \* GB9: x (Extend | ZWJ)
    ELSE IF curr_prop \in {GCB_EXTEND, GCB_ZWJ} THEN 0
    \* GB9a: x SpacingMark
    ELSE IF curr_prop = GCB_SPACING_MARK THEN 0
    \* GB9b: Prepend x
    ELSE IF prev_prop = GCB_PREPEND THEN 0
    \* GB9c
    ELSE IF incb_state = 2 /\ is_incb_consonant(curr_cp) # 0 THEN 0
    \* GB11
    ELSE IF in_ext_pict # 0 /\ prev_prop = GCB_ZWJ /\ is_extended_pictographic(curr_cp) # 0
         THEN 0
    \* GB12/GB13
    ELSE IF prev_prop = GCB_REGIONAL_INDICATOR /\ curr_prop = GCB_REGIONAL_INDICATOR
         THEN (IF ri_count % 2 = 0 THEN 1 ELSE 0)
    \* GB999
    ELSE 1

is_grapheme_break(prev_prop, curr_prop, ri_count, in_ext_pict, curr_cp, incb_state) ==
    \* GB3: CR x LF
    IF prev_prop = GCB_CR /\ curr_prop = GCB_LF THEN 0
    \* GB4: (Control | CR | LF) /
    ELSE IF prev_prop \in {GCB_CONTROL, GCB_CR, GCB_LF} THEN 1
    \* GB5: / (Control | CR | LF)
    ELSE IF curr_prop \in {GCB_CONTROL, GCB_CR, GCB_LF} THEN 1
    \* GB6: L x (L | V | LV | LVT)
    ELSE IF prev_prop = GCB_L /\ curr_prop \in {GCB_L, GCB_V, GCB_LV, GCB_LVT} THEN 0
    \* GB7: (LV | V) x (V | T)
    ELSE IF prev_prop \in {GCB_LV, GCB_V} /\ curr_prop \in {GCB_V, GCB_T} THEN 0
    \* GB8: (LVT | T) x T
    ELSE IF prev_prop \in {GCB_LVT, GCB_T} /\ curr_prop = GCB_T THEN 0
    \* GB9: x (Extend | ZWJ)
    ELSE IF curr_prop \in {GCB_EXTEND, GCB_ZWJ} THEN 0
    \* GB9a: x SpacingMark
    ELSE IF curr_prop = GCB_SPACING_MARK THEN 0
    \* GB9b: Prepend x
    ELSE IF prev_prop = GCB_PREPEND THEN 0
    \* GB9c
    ELSE IF incb_state = 2 /\ is_incb_consonant(curr_cp) # 0 THEN 0
    \* GB11
    ELSE IF in_ext_pict # 0 /\ prev_prop = GCB_ZWJ /\ is_extended_pictographic(curr_cp) # 0
         THEN 0
    \* GB12/GB13
    ELSE IF prev_prop = GCB_REGIONAL_INDICATOR /\ curr_prop = GCB_REGIONAL_INDICATOR
         THEN (IF ri_count % 2 = 0 THEN 1 ELSE 0)
    \* GB999
    ELSE 1

\* The locals of utflite_next_grapheme that its while loop carries, and the
\* value it has returned (NoOffset: none yet).  prev_cp is only stored, never
\* read again, so it is not carried.
GraphemeLocals(next_offset, prev_prop, ri_count, in_ext_pict, incb_state, returned) ==
    [next_offset |-> next_offset, prev_prop |-> prev_prop, ri_count |-> ri_count,
     in_ext_pict |-> in_ext_pict, incb_state |-> incb_state, returned |-> returned]

\* Mutant: the decoder is told the whole length, not what is left of it.
DecodeAtWholeLength(txt, len, off) == utflite_decode(Advance(txt, off), len)

\* utflite_decode(text + offset, length - offset, &cp)
DecodeAt(txt, len, off) == utflite_decode(Advance(txt, off), len - off)

\* Mutant: a pass that never clears the Extended_Pictographic flag.
GraphemeStepFlagKept(txt, len, s) ==
    LET d == DecodeAt(txt, len, s.next_offset)
        curr_cp == d.codepoint
        curr_prop == get_gcb(curr_cp)
        keeps == curr_prop = GCB_EXTEND \/ curr_prop = GCB_ZWJ
    IN IF is_grapheme_break(s.prev_prop, curr_prop, s.ri_count, s.in_ext_pict,
                            curr_cp, s.incb_state) # 0
       THEN [s EXCEPT !.returned = s.next_offset]
       ELSE GraphemeLocals(
                s.next_offset + d.bytes,
                curr_prop,
                IF curr_prop = GCB_REGIONAL_INDICATOR THEN s.ri_count + 1
                ELSE IF ~keeps THEN 0 ELSE s.ri_count,
                IF is_extended_pictographic(curr_cp) # 0 THEN 1
                ELSE s.in_ext_pict,
                IF is_incb_consonant(curr_cp) # 0 THEN 1
                ELSE IF is_incb_linker(curr_cp) # 0 /\ s.incb_state >= 1 THEN 2
                ELSE IF ~keeps THEN 0 ELSE s.incb_state,
                NoOffset)

\* One pass through the body of the while loop of utflite_next_grapheme.
GraphemeStep(txt, len, s) ==
    LET d == DecodeAt(txt, len, s.next_offset)
        curr_cp == d.codepoint
        curr_prop == get_gcb(curr_cp)
        keeps == curr_prop = GCB_EXTEND \/ curr_prop = GCB_ZWJ
    IN IF is_grapheme_break(s.prev_prop, curr_prop, s.ri_count, s.in_ext_pict,
                            curr_cp, s.incb_state) # 0
       THEN [s EXCEPT !.returned = s.next_offset]
       ELSE GraphemeLocals(
                s.next_offset + d.bytes,
                curr_prop,
                IF curr_prop = GCB_REGIONAL_INDICATOR THEN s.ri_count + 1
                ELSE IF ~keeps THEN 0 ELSE s.ri_count,
                IF is_extended_pictographic(curr_cp) # 0 THEN 1
                ELSE IF ~keeps THEN 0 ELSE s.in_ext_pict,
                IF is_incb_consonant(curr_cp) # 0 THEN 1
                ELSE IF is_incb_linker(curr_cp) # 0 /\ s.incb_state >= 1 THEN 2
                ELSE IF ~keeps THEN 0 ELSE s.incb_state,
                NoOffset)

\* The loop has been left: by a return, or by its condition.
GraphemeLoopDone(len, s) == s.returned # NoOffset \/ s.next_offset >= len

\* At most n passes of the loop, run as two halves so that the evaluation
\* nests no deeper than the logarithm of n.
RECURSIVE GraphemePasses(_, _, _, _)
GraphemePasses(txt, len, s, n) ==
    IF GraphemeLoopDone(len, s) THEN s
    ELSE IF n <= 1 THEN GraphemeStep(txt, len, s)
    ELSE GraphemePasses(txt, len, GraphemePasses(txt, len, s, n \div 2), n - n \div 2)

\* while (next_offset < length) { ... }
RECURSIVE GraphemeLoop(_, _, _)
GraphemeLoop(txt, len, s) ==
    IF GraphemeLoopDone(len, s) THEN s
    ELSE GraphemeLoop(txt, len, GraphemePasses(txt, len, s, len))

utflite_next_grapheme(txt, len, off) ==
    IF txt = NULL \/ off >= len \/ off < 0 THEN len
    ELSE LET d == DecodeAt(txt, len, off)
             prev_cp == d.codepoint
             next_offset == off + d.bytes
         IN IF next_offset >= len THEN len
            ELSE LET prev_prop == get_gcb(prev_cp)
                     s == GraphemeLoop(txt, len,
                              GraphemeLocals(
                                  next_offset,
                                  prev_prop,
                                  IF prev_prop = GCB_REGIONAL_INDICATOR THEN 1 ELSE 0,
                                  is_extended_pictographic(prev_cp),
                                  IF is_incb_consonant(prev_cp) # 0 THEN 1 ELSE 0,
                                  NoOffset))
                 IN IF s.returned # NoOffset THEN s.returned ELSE len

\* The locals of the backward loop of utflite_prev_grapheme, and whether it
\* has been left by its break.
BacktrackLocals(scan_start, remaining, broke) ==
    [scan_start |-> scan_start, remaining |-> remaining, broke |-> broke]

\* A pass that moves to the previous character and leaves the counter alone.
BacktrackStepUncounted(txt, s) ==
    LET prev == utflite_prev_char(txt, s.scan_start).offset IN
    IF prev = s.scan_start THEN [s EXCEPT !.broke = TRUE]
    ELSE BacktrackLocals(prev, s.remaining, FALSE)

\* One pass through the body of the backward loop.
BacktrackStep(txt, s) ==
    LET prev == utflite_prev_char(txt, s.scan_start).offset IN
    IF prev = s.scan_start THEN [s EXCEPT !.broke = TRUE]
    ELSE BacktrackLocals(prev, s.remaining - 1, FALSE)

BacktrackLoopDone(s) == s.broke \/ ~(s.remaining > 0 /\ s.scan_start > 0)

\* At most n passes of the loop, run as two halves.
RECURSIVE BacktrackPasses(_, _, _)
BacktrackPasses(txt, s, n) ==
    IF BacktrackLoopDone(s) THEN s
    ELSE IF n <= 1 THEN BacktrackStep(txt, s)
    ELSE BacktrackPasses(txt, BacktrackPasses(txt, s, n \div 2), n - n \div 2)

\* while (remaining > 0 && scan_start > 0) { ... }: the anchor it stops at.
RECURSIVE BacktrackLoop(_, _, _)
BacktrackLoop(txt, scan_start, remaining) ==
    LET s == BacktrackPasses(txt, BacktrackLocals(scan_start, remaining, FALSE),
                             remaining)
    IN IF BacktrackLoopDone(s) THEN s.scan_start
       ELSE BacktrackLoop(txt, s.scan_start, s.remaining)

\* The forward loop of utflite_prev_grapheme: while (curr < offset), and
\* the body of the loop once next is known.
RECURSIVE RescanLoop(_, _, _, _)
RECURSIVE RescanStep(_, _, _, _)
RescanLoop(txt, off, curr, grapheme_start) ==
    IF curr < off
    THEN RescanStep(txt, off, grapheme_start, utflite_next_grapheme(txt, off, curr))
    ELSE grapheme_start

RescanStep(txt, off, grapheme_start, next) ==
    IF next >= off THEN grapheme_start
    ELSE RescanLoop(txt, off, next, next)

\* Mutant: the rescan starts at the previous character, with no rewind.
utflite_prev_grapheme_no_rewind(txt, off) ==
    IF txt = NULL \/ off <= 0 THEN 0
    ELSE LET prev_start == utflite_prev_char(txt, off).offset IN
         IF prev_start = 0 /\ off > 0 THEN 0
         ELSE RescanLoop(txt, off, prev_start, prev_start)

utflite_prev_grapheme(txt, off) ==
    IF txt = NULL \/ off <= 0 THEN 0
    ELSE LET prev_start == utflite_prev_char(txt, off).offset IN
         IF prev_start = 0 /\ off > 0 THEN 0
         ELSE LET scan_start == BacktrackLoop(txt, prev_start, GRAPHEME_MAX_BACKTRACK)
              IN RescanLoop(txt, off, scan_start, scan_start)

---------------------------------------------------------------------------
(* A caller walking a buffer by grapheme clusters. *)

\* The number of codepoints of a buffer drawn from one group of categories.
MaxCodepoints == 4

\* The number of pieces of a buffer drawn from all categories at once.
MaxMixed == 2

\* How far from the end of a buffer utflite_prev_grapheme is called.
PrevWindow == 8

\* The UTF-8 bytes of a codepoint, as utflite_encode writes them.
EncodeCp(cp) ==
    LET e == utflite_encode(cp, <<0, 0, 0, 0>>) IN SubSeq(e.buffer, 1, e.bytes)

\* One codepoint per category the rules tell apart.
SampleOther == \h61
SampleCR == \h0D
SampleLF == \h0A
SampleControl == \h01
SampleExtend == \h0301
SampleZWJ == \h200D
SampleRI == \h1F1E8
SamplePrepend == \h0600
SampleSpacingMark == \h0903
SampleL == \h1100
SampleV == \h1161
SampleT == \h11A8
SampleLV == \hAC00
SampleLVT == \hAC01
SampleExtPict == \h1F468
SampleConsonant == \h0915
SampleLinker == \h094D

EmojiGroup == {SampleExtend, SampleZWJ, SampleExtPict, SampleRI}
IndicGroup == {SampleExtend, SampleZWJ, SampleConsonant, SampleLinker}
HangulGroup == {SampleL, SampleV, SampleT, SampleLV}
ControlGroup == {SampleOther, SampleCR, SampleLF, SampleControl}
PrependGroup == {SampleOther, SamplePrepend, SampleSpacingMark, SampleRI}

Groups == {EmojiGroup, IndicGroup, HangulGroup, ControlGroup, PrependGroup}

\* Every category, a stray continuation byte and a truncated sequence.
MixedChunks ==
    {EncodeCp(cp) : cp \in UNION Groups \cup {SampleLVT}}
    \cup { <<\h80>>, <<\hE4, \hB8>> }

\* The concatenations of at most n chunks.
RECURSIVE ChunkTexts(_, _)
ChunkTexts(chunks, n) ==
    IF n = 0 THEN {<<>>}
    ELSE LET shorter == ChunkTexts(chunks, n - 1)
         IN shorter \cup {t \o c : t \in shorter, c \in chunks}

\* The family emoji, the Canadian flag and e + acute accent of the README.
FamilyEmoji ==
    <<\hF0, \h9F, \h91, \hA8, \hE2, \h80, \h8D, \hF0, \h9F, \h91, \hA9,
      \hE2, \h80, \h8D, \hF0, \h9F, \h91, \hA7>>

CanadianFlag == <<\hF0, \h9F, \h87, \hA8, \hF0, \h9F, \h87, \hA6>>

AcuteAccent == <<\h65, \hCC, \h81>>

GraphemeTexts ==
    UNION {ChunkTexts({EncodeCp(cp) : cp \in g}, MaxCodepoints) : g \in Groups}
    \cup ChunkTexts(MixedChunks, MaxMixed)
    \cup {FamilyEmoji, CanadianFlag, AcuteAccent}

InitGrapheme ==
    /\ text \in GraphemeTexts
    /\ offset = 0
    /\ op = "init"
    /\ arg = 0
    /\ start = 0
    /\ steps = 0
    /\ length = 0
    /\ codepoint = 0
    /\ bytes = 0
    /\ reads = {}
    /\ buffer = <<>>
    /\ before = <<>>
    /\ valid = 1
    /\ error_offset = NoOffset
    /\ result = 0
    /\ frame = NoFrame

\* The loop of count_graphemes of the README:
\* while (offset < len) offset = utflite_next_grapheme(text, len, offset)
NextGrapheme ==
    /\ op \in {"init", "next_grapheme"}
    /\ offset < Len(text)
    /\ \E r \in {utflite_next_grapheme(text, Len(text), offset)} :
        /\ op' = "next_grapheme"
        /\ arg' = offset
        /\ offset' = r
        /\ result' = r
        /\ steps' = steps + 1
        /\ length' = Len(text)
        /\ UNCHANGED <<text, start, codepoint, bytes, reads, buffer, before,
                       valid, error_offset, frame>>

\* The offsets utflite_prev_grapheme is called with: those of the last
\* PrevWindow bytes of the buffer.
PrevOffsets(t) == {o \in 1 .. Len(t) : o > Len(t) - PrevWindow}

\* result = utflite_prev_grapheme(text, offset)
PrevGrapheme ==
    /\ op = "init"
    /\ \E o \in PrevOffsets(text) : \E r \in {utflite_prev_grapheme(text, o)} :
        /\ op' = "prev_grapheme"
        /\ arg' = o
        /\ offset' = r
        /\ result' = r
        /\ UNCHANGED <<text, start, steps, length, codepoint, bytes, reads,
                       buffer, before, valid, error_offset, frame>>

NextGraphemes == NextGrapheme \/ PrevGrapheme \/ CodepointCount

SpecGrapheme == InitGrapheme /\ [][NextGraphemes]_vars

---------------------------------------------------------------------------
(* The same caller on clusters about as long as the backtrack limit. *)

\* The largest number of combining marks that follow one base character.
MaxMarks == 130

\* The largest number of characters in front of the long cluster.
MaxPrefix == 2

\* n letters 'a', then 'e' and k combining acute accents (CC 81).
LongCluster(n, k) ==
    [i \in 1 .. n |-> \h61] \o <<\h65>>
        \o [i \in 1 .. 2 * k |-> IF i % 2 = 1 THEN \hCC ELSE \h81]

LongClusterTexts ==
    {LongCluster(n, k) :
        n \in 0 .. MaxPrefix, k \in (GRAPHEME_MAX_BACKTRACK - 2) .. MaxMarks}

InitBacktrack ==
    /\ text \in LongClusterTexts
    /\ offset = 0
    /\ op = "init"
    /\ arg = 0
    /\ start = 0
    /\ steps = 0
    /\ length = 0
    /\ codepoint = 0
    /\ bytes = 0
    /\ reads = {}
    /\ buffer = <<>>
    /\ before = <<>>
    /\ valid = 1
    /\ error_offset = NoOffset
    /\ result = 0
    /\ frame = NoFrame

NextBacktrack == NextGrapheme \/ PrevGrapheme

SpecBacktrack == InitBacktrack /\ [][NextBacktrack]_vars

---------------------------------------------------------------------------
(* Claims about grapheme navigation *)

\* The anchor of utflite_prev_grapheme(t, off): up to GRAPHEME_MAX_BACKTRACK
\* characters in front of the character that ends at off.
Anchor(t, off) ==
    BacktrackLoop(t, utflite_prev_char(t, off).offset, GRAPHEME_MAX_BACKTRACK)

\* The boundaries below off that utflite_next_grapheme, bounded at off,
\* returns when iterated from curr.
RECURSIVE RescanEnumerates(_, _, _)
RescanEnumerates(t, off, curr) ==
    IF curr >= off THEN {}
    ELSE LET next == utflite_next_grapheme(t, off, curr) IN
         IF next >= off THEN {}
         ELSE {next} \cup RescanEnumerates(t, off, next)

Largest(S) == CHOOSE x \in S : \A y \in S : y <= x

\* C13: for offset > 0, utflite_prev_grapheme returns the last boundary
\* strictly before offset that the forward rescan from its anchor
\* enumerates, and 0 when the rescan finds none.
C13_PrevGraphemeLastBoundaryOrZero ==
    (op = "prev_grapheme" /\ arg > 0) =>
        LET found == RescanEnumerates(text, arg, Anchor(text, arg))
        IN result = IF found = {} THEN 0 ELSE Largest(found)

\* C13 witness: the buffer is one cluster longer than the backtrack limit,
\* the rescan found no boundary, and the call made at the end returned its
\* anchor, in the middle of the cluster.
C13_ReturnedAnchor ==
    /\ op = "prev_grapheme"
    /\ arg = Len(text)
    /\ text[1] = \h65
    /\ utflite_next_grapheme(text, Len(text), 0) = Len(text)
    /\ RescanEnumerates(text, arg, Anchor(text, arg)) = {}
    /\ result = Anchor(text, arg)
    /\ result > 0
    /\ ByteAt(text, result) = \hCC

\* The codepoints of a buffer with their offsets, as stepping by decode from
\* off yields them.
RECURSIVE CodepointsFrom(_, _, _)
CodepointsFrom(t, len, off) ==
    IF off >= len THEN <<>>
    ELSE LET d == utflite_decode(Advance(t, off), len - off)
         IN <<[at |-> off, cp |-> d.codepoint]>> \o CodepointsFrom(t, len, off + d.bytes)

\* The properties of the i-th codepoint, from the program's lookups.
Gcb(c, i) == get_gcb(c[i].cp)
ExtPict(c, i) == is_extended_pictographic(c[i].cp) # 0
Consonant(c, i) == is_incb_consonant(c[i].cp) # 0
Linker(c, i) == is_incb_linker(c[i].cp) # 0
IncbExtend(c, i) == Gcb(c, i) \in {GCB_EXTEND, GCB_ZWJ}

\* GB9c: Consonant [Extend Linker]* Linker [Extend Linker]* x Consonant
GB9c(c, i) ==
    /\ Consonant(c, i)
    /\ \E j \in 1 .. i - 1 :
           /\ Consonant(c, j)
           /\ \A k \in j + 1 .. i - 1 : Linker(c, k) \/ IncbExtend(c, k)
           /\ \E k \in j + 1 .. i - 1 : Linker(c, k)

\* GB11: ExtPict Extend* ZWJ x ExtPict
GB11(c, i) ==
    /\ ExtPict(c, i)
    /\ Gcb(c, i - 1) = GCB_ZWJ
    /\ \E j \in 1 .. i - 2 :
           /\ ExtPict(c, j)
           /\ \A k \in j + 1 .. i - 2 : Gcb(c, k) = GCB_EXTEND

\* The number of regional indicators that end at the i-th codepoint.
RiRun(c, i) ==
    LET others == {j \in 1 .. i : Gcb(c, j) # GCB_REGIONAL_INDICATOR}
    IN IF others = {} THEN i ELSE i - Largest(others)

\* GB12, GB13: an odd run of RI x RI
GB12_13(c, i) ==
    /\ Gcb(c, i - 1) = GCB_REGIONAL_INDICATOR
    /\ Gcb(c, i) = GCB_REGIONAL_INDICATOR
    /\ RiRun(c, i - 1) % 2 = 1

\* The rules in their order: is there a boundary in front of the i-th
\* codepoint, i >= 2.
BreakBefore(c, i) ==
    LET p == Gcb(c, i - 1)
        q == Gcb(c, i)
    IN IF p = GCB_CR /\ q = GCB_LF THEN FALSE
       ELSE IF p \in {GCB_CONTROL, GCB_CR, GCB_LF} THEN TRUE
       ELSE IF q \in {GCB_CONTROL, GCB_CR, GCB_LF} THEN TRUE
       ELSE IF p = GCB_L /\ q \in {GCB_L, GCB_V, GCB_LV, GCB_LVT} THEN FALSE
       ELSE IF p \in {GCB_LV, GCB_V} /\ q \in {GCB_V, GCB_T} THEN FALSE
       ELSE IF p \in {GCB_LVT, GCB_T} /\ q = GCB_T THEN FALSE
       ELSE IF q \in {GCB_EXTEND, GCB_ZWJ} THEN FALSE
       ELSE IF q = GCB_SPACING_MARK THEN FALSE
       ELSE IF p = GCB_PREPEND THEN FALSE
       ELSE IF GB9c(c, i) THEN FALSE
       ELSE IF GB11(c, i) THEN FALSE
       ELSE IF GB12_13(c, i) THEN FALSE
       ELSE TRUE

\* The boundaries the rules define in a buffer.
RuleBoundaries(t) ==
    LET c == CodepointsFrom(t, Len(t), 0)
    IN {0, Len(t)} \cup {c[i].at : i \in {j \in 2 .. Len(c) : BreakBefore(c, j)}}

Smallest(S) == CHOOSE x \in S : \A y \in S : x <= y

\* C12: iterating utflite_next_grapheme from offset 0 visits exactly the
\* boundaries that GB3-GB13 and GB999 define on the whole codepoint
\* sequence: each call made at a boundary returns the next boundary of the
\* rules.
C12_EngineMatchesRules ==
    op = "next_grapheme" =>
        /\ arg \in RuleBoundaries(text)
        /\ offset = Smallest({b \in RuleBoundaries(text) : b > arg})

\* C12 witness: ExtPict ZWJ ZWJ ExtPict, where GB11 does not apply in front
\* of the last codepoint (a ZWJ is not an Extend), came back as one cluster.
C12_JoinedAcrossTwoZwj ==
    /\ op = "next_grapheme"
    /\ text = EncodeCp(SampleExtPict) \o EncodeCp(SampleZWJ)
                  \o EncodeCp(SampleZWJ) \o EncodeCp(SampleExtPict)
    /\ arg = 0
    /\ offset = Len(text)
    /\ 10 \in RuleBoundaries(text)

RiRunFrom(c, i) ==
    LET others == {j \in i .. Len(c) : Gcb(c, j) # GCB_REGIONAL_INDICATOR}
    IN IF others = {} THEN Len(c) - i + 1 ELSE Smallest(others) - i

\* The index of the codepoint that starts at offset off (0: none).
IndexAt(c, off) ==
    LET at == {i \in 1 .. Len(c) : c[i].at = off}
    IN IF at = {} THEN 0 ELSE CHOOSE i \in at : TRUE

\* C18: a run of n regional indicators that starts at a cluster start is
\* split into pairs: no boundary after one indicator of the run, a boundary
\* after two when a third follows; a buffer that is one run of n indicators
\* holds (n + 1) \div 2 clusters; the Canadian flag is 2 codepoints and 1
\* cluster.
C18_RegionalIndicatorPairs ==
    LET c == CodepointsFrom(text, Len(text), 0)
        i == IndexAt(c, arg)
        n == RiRunFrom(c, i)
    IN /\ (op = "next_grapheme" /\ i > 0 /\ n >= 2) =>
              /\ offset >= c[i + 1].at + 4
              /\ n >= 3 => offset = c[i + 2].at
       /\ (op = "next_grapheme" /\ c # <<>> /\ RiRunFrom(c, 1) = Len(c)
              /\ offset = Len(text)) =>
              steps = (Len(c) + 1) \div 2
       /\ text = CanadianFlag =>
              /\ op = "codepoint_count" => result = 2
              /\ (op = "next_grapheme" /\ offset = Len(text)) => steps = 1

\* C18 witness: a buffer of three regional indicators was walked to its end:
\* a pair, then the trailing single indicator.
C18_Witness ==
    /\ text = EncodeCp(SampleRI) \o EncodeCp(SampleRI) \o EncodeCp(SampleRI)
    /\ op = "next_grapheme"
    /\ arg = 8
    /\ offset = 12
    /\ steps = 2

---------------------------------------------------------------------------
(* The loops, one pass at a time. *)

\* The most passes one call is followed for.
MaxPasses == 300

\* How far from either end of a buffer the offset arguments reach.
OffsetWindow == 4

\* Pieces of the looped buffers: characters of every length, a combining
\* mark, a regional indicator, and ill-formed sequences.
LoopChunks ==
    { <<\h41>>, <<\hC3, \hA9>>, <<\hE4, \hB8, \hAD>>, <<\hF0, \h9F, \h87, \hA8>>,
      <<\hCC, \h81>>, <<\hEF, \hBF, \hBD>>, <<\h80>>, <<\hE4, \hB8>>,
      <<\hC0, \h80>>, <<\hED, \hA0, \h80>>, <<\hFF>> }

\* The number of stray continuation bytes that follow one letter.
MaxStray == 132

\* The letter 'A' and k continuation bytes that no lead byte introduces.
StrayRun(k) == <<\h41>> \o [i \in 1 .. k |-> \h80]

LoopTexts ==
    ChunkTexts(LoopChunks, MaxMixed) \cup LongClusterTexts \cup {StrayRun(MaxStray)}

LoopOffsets(t) ==
    {o \in -1 .. Len(t) : o <= OffsetWindow \/ o >= Len(t) - OffsetWindow}

InitLoops ==
    /\ text \in LoopTexts
    /\ offset = 0
    /\ op = "init"
    /\ arg = 0
    /\ start = 0
    /\ steps = 0
    /\ length = 0
    /\ codepoint = 0
    /\ bytes = 0
    /\ reads = {}
    /\ buffer = <<>>
    /\ before = <<>>
    /\ valid = 1
    /\ error_offset = NoOffset
    /\ result = 0
    /\ frame = NoFrame

\* A call: the function entered with argument a, its locals f.
Enter_(name, a, f) ==
    /\ op = "init"
    /\ op' = name
    /\ arg' = a
    /\ frame' = f
    /\ result' = IF f.pc = "returned" THEN f.result ELSE 0
    /\ UNCHANGED <<text, offset, start, steps, length, codepoint, bytes, reads,
                   buffer, before, valid, error_offset>>

\* One pass of the loop pc of the running function: its locals become f.
Pass_(name, pc, f) ==
    /\ op = name
    /\ frame.pc = pc
    /\ steps < MaxPasses
    /\ steps' = steps + 1
    /\ frame' = f
    /\ result' = IF f.pc = "returned" THEN f.result ELSE 0
    /\ UNCHANGED <<text, offset, op, arg, start, length, codepoint, bytes, reads,
                   buffer, before, valid, error_offset>>

Returned(value) == [pc |-> "returned", result |-> value]

\* utflite_decode(text, length, &codepoint) up to its for loop.
DecodeEnter ==
    LET len == Len(text)
        first == ByteAt(text, 0)
        sequence_length == SequenceLength(first)
    IN Enter_("decode", 0,
           IF len <= 0 THEN Returned(1)
           ELSE IF first < \h80 THEN Returned(1)
           ELSE IF sequence_length = 0 THEN Returned(1)
           ELSE IF Truncated(len, sequence_length) THEN Returned(1)
           ELSE [pc |-> "for", i |-> 1, sequence_length |-> sequence_length,
                 cp |-> LeadBits(first, sequence_length)])

\* for (int i = 1; i < sequence_length; i++) { ... } and the code after it.
DecodeFor ==
    LET f == frame
        byte == ByteAt(text, f.i)
    IN Pass_("decode", "for",
           IF f.i < f.sequence_length
           THEN IF ~IsContinuation(byte) THEN Returned(1)
                ELSE [f EXCEPT !.i = f.i + 1, !.cp = f.cp * 64 + Low(byte, 6)]
           ELSE Returned(f.sequence_length))

\* The indices of the buffer a decode at off reads.
ReadsAt(d, off) == {off + i : i \in d.reads}

\* A return of utflite_next_grapheme, with the indices read so far.
ReturnedAfter(value, rd) == [pc |-> "returned", result |-> value, reads |-> rd]

\* utflite_next_grapheme(text, length, offset) up to its while loop.
NextGraphemeEnter ==
    \E off \in LoopOffsets(text) :
        LET len == Len(text)
            d == DecodeAt(text, len, off)
            next_offset == off + d.bytes
            prev_prop == get_gcb(d.codepoint)
        IN Enter_("next_grapheme", off,
               IF off >= len \/ off < 0 THEN ReturnedAfter(len, {})
               ELSE IF next_offset >= len THEN ReturnedAfter(len, ReadsAt(d, off))
               ELSE [pc |-> "while", length |-> len, reads |-> ReadsAt(d, off),
                     s |-> GraphemeLocals(
                               next_offset,
                               prev_prop,
                               IF prev_prop = GCB_REGIONAL_INDICATOR THEN 1 ELSE 0,
                               is_extended_pictographic(d.codepoint),
                               IF is_incb_consonant(d.codepoint) # 0 THEN 1 ELSE 0,
                               NoOffset)])

\* while (next_offset < length) { ... } return length;
NextGraphemeWhile ==
    LET f == frame IN
    Pass_("next_grapheme", "while",
        IF f.s.next_offset < f.length
        THEN LET s == GraphemeStep(text, f.length, f.s)
                 rd == f.reads \cup ReadsAt(DecodeAt(text, f.length, f.s.next_offset),
                                            f.s.next_offset)
             IN IF s.returned # NoOffset THEN ReturnedAfter(s.returned, rd)
                ELSE [f EXCEPT !.s = s, !.reads = rd]
        ELSE ReturnedAfter(f.length, f.reads))

\* The offset reached from p by n successive decodes (p plus the sum of the
\* bytes consumed), computed in two halves.
RECURSIVE DecodeJump(_, _, _, _)
DecodeJump(t, len, p, n) ==
    IF n = 0 \/ p >= len THEN p
    ELSE IF n = 1 THEN p + DecodeAt(t, len, p).bytes
    ELSE DecodeJump(t, len, DecodeJump(t, len, p, n \div 2), n - n \div 2)

\* The least number of decode steps from p, between lo and hi, that lead
\* to target or beyond it.
RECURSIVE StepsTo(_, _, _, _, _, _)
StepsTo(t, len, p, target, lo, hi) ==
    IF lo >= hi THEN lo
    ELSE LET mid == (lo + hi) \div 2 IN
         IF DecodeJump(t, len, p, mid) >= target
         THEN StepsTo(t, len, p, target, lo, mid)
         ELSE StepsTo(t, len, p, target, mid + 1, hi)

\* The indexes read by the decodes made at the offsets at.
DecodeReads(txt, len, at) ==
    UNION {ReadsAt(DecodeAt(txt, len, p), p) : p \in at}

\* The offsets below len of the first k + 1 successive decodes from off.
DecodedAt(txt, len, off, k) ==
    {p \in {DecodeJump(txt, len, off, n) : n \in 0 .. k} : p < len}

\* The indexes utflite_next_grapheme(text, length, offset) reads when it
\* returns r: those of its decodes, made at offset and at every next_offset
\* up to r.
GraphemeReads(txt, len, off, r) ==
    DecodeReads(txt, len,
                DecodedAt(txt, len, off, StepsTo(txt, len, off, r, 1, r - off)))

\* utflite_prev_grapheme(text, offset) up to its first loop.
PrevGraphemeEnter ==
    \E off \in LoopOffsets(text) :
        LET c == utflite_prev_char(text, off)
            prev_start == c.offset
        IN Enter_("prev_grapheme", off,
               IF off <= 0 THEN ReturnedAfter(0, {})
               ELSE IF prev_start = 0 /\ off > 0 THEN ReturnedAfter(0, c.reads)
               ELSE [pc |-> "backtrack", offset |-> off, reads |-> c.reads,
                     b |-> BacktrackLocals(prev_start, GRAPHEME_MAX_BACKTRACK, FALSE)])

\* while (remaining > 0 && scan_start > 0) { ... } and the locals of the
\* second loop.
PrevGraphemeBacktrack ==
    LET f == frame
        b == IF BacktrackLoopDone(f.b) THEN f.b ELSE BacktrackStep(text, f.b)
        rd == IF BacktrackLoopDone(f.b) THEN f.reads
              ELSE f.reads \cup utflite_prev_char(text, f.b.scan_start).reads
    IN Pass_("prev_grapheme", "backtrack",
           IF BacktrackLoopDone(f.b) \/ b.broke
           THEN [pc |-> "rescan", offset |-> f.offset, reads |-> rd,
                 scan_start |-> b.scan_start, curr |-> b.scan_start,
                 grapheme_start |-> b.scan_start]
           ELSE [f EXCEPT !.b = b, !.reads = rd])

\* while (curr < offset) { ... } return grapheme_start;
PrevGraphemeRescan ==
    /\ op = "prev_grapheme"
    /\ frame.pc = "rescan"
    /\ \E next \in {utflite_next_grapheme(text, frame.offset, frame.curr)} :
       \E rd \in {frame.reads
                     \cup GraphemeReads(text, frame.offset, frame.curr, next)} :
           Pass_("prev_grapheme", "rescan",
               IF frame.curr < frame.offset
               THEN IF next >= frame.offset
                    THEN ReturnedAfter(frame.grapheme_start, rd)
                    ELSE [frame EXCEPT !.curr = next, !.grapheme_start = next,
                                       !.reads = rd]
               ELSE ReturnedAfter(frame.grapheme_start, frame.reads))

\* utflite_validate(text, length, &error_offset)
ValidateEnter ==
    Enter_("validate", 0, [pc |-> "while", offset |-> 0, length |-> Len(text)])

ValidateWhile ==
    LET f == frame
        d == utflite_decode(Advance(text, f.offset), f.length - f.offset)
    IN Pass_("validate", "while",
           IF f.offset < f.length
           THEN IF d.codepoint = UTFLITE_REPLACEMENT_CHAR
                   /\ NotLiteralReplacement(text, f.length, f.offset)
                THEN Returned(0)
                ELSE [f EXCEPT !.offset = f.offset + d.bytes]
           ELSE Returned(1))

\* utflite_codepoint_count(text, length)
CodepointCountEnter ==
    Enter_("codepoint_count", 0,
           [pc |-> "while", offset |-> 0, length |-> Len(text), count |-> 0])

CodepointCountWhile ==
    LET f == frame IN
    Pass_("codepoint_count", "while",
        IF f.offset < f.length
        THEN [f EXCEPT !.offset = utflite_next_char(text, f.length, f.offset).offset,
                       !.count = f.count + 1]
        ELSE Returned(f.count))

\* utflite_string_width(text, length)
StringWidthEnter ==
    Enter_("string_width", 0,
           [pc |-> "while", offset |-> 0, length |-> Len(text), width |-> 0])

StringWidthWhile ==
    LET f == frame
        char_width == utflite_char_width(text, f.length, f.offset)
    IN Pass_("string_width", "while",
           IF f.offset < f.length
           THEN [f EXCEPT !.offset = utflite_next_char(text, f.length, f.offset).offset,
                          !.width = IF char_width > 0 THEN f.width + char_width
                                    ELSE f.width]
           ELSE Returned(f.width))

\* utflite_truncate(text, length, max_cols)
TruncateEnter ==
    \E max_cols \in {0, 1, MaxCols} :
        Enter_("truncate", max_cols,
               [pc |-> "while", offset |-> 0, length |-> Len(text), width |-> 0,
                max_cols |-> max_cols])

TruncateWhile ==
    LET f == frame
        char_width == utflite_char_width(text, f.length, f.offset)
    IN Pass_("truncate", "while",
           IF f.offset < f.length
           THEN IF char_width > 0 /\ f.width + char_width > f.max_cols
                THEN Returned(f.offset)
                ELSE [f EXCEPT !.offset = utflite_next_char(text, f.length, f.offset).offset,
                               !.width = IF char_width > 0 THEN f.width + char_width
                                         ELSE f.width]
           ELSE Returned(f.length))

NextLoops ==
    \/ DecodeEnter \/ DecodeFor
    \/ NextGraphemeEnter \/ NextGraphemeWhile
    \/ PrevGraphemeEnter \/ PrevGraphemeBacktrack \/ PrevGraphemeRescan
    \/ ValidateEnter \/ ValidateWhile
    \/ CodepointCountEnter \/ CodepointCountWhile
    \/ StringWidthEnter \/ StringWidthWhile
    \/ TruncateEnter \/ TruncateWhile

SpecLoops == InitLoops /\ [][NextLoops]_vars

---------------------------------------------------------------------------
(* Claims about the loops *)

\* How far the running loop is from its end.
Variant(f) ==
    IF f.pc = "for" THEN f.sequence_length - f.i
    ELSE IF f.pc = "backtrack" THEN f.b.remaining
    ELSE IF f.pc = "rescan" THEN f.offset - f.curr
    ELSE IF "s" \in DOMAIN f THEN f.length - f.s.next_offset
    ELSE f.length - f.offset

InLoop(f) == f # NoFrame /\ f.pc # "returned"

\* The most passes a call makes over a buffer: one for each byte, one for
\* each unit of the backtrack counter, and the passes that leave the loops.
PassLimit(t) == Len(t) + GRAPHEME_MAX_BACKTRACK + 2

\* C19: every operation terminates: every pass that stays in a loop
\* strictly decreases a distance that never goes below zero (the input
\* length minus the offset, or the backtrack counter), a call that has not
\* returned can always make its next pass, and no call makes more passes
\* than the length of its input and the backtrack counter allow.
C19_LoopsTerminate ==
    /\ [][(InLoop(frame) /\ InLoop(frame') /\ frame'.pc = frame.pc) =>
              /\ Variant(frame') < Variant(frame)
              /\ Variant(frame') >= 0]_vars
    /\ [](InLoop(frame) => Variant(frame) >= 0 /\ steps < MaxPasses)
    /\ [](steps <= PassLimit(text))

\* C19 witness: utflite_prev_grapheme returned after its backward loop had
\* used up the whole backtrack counter.
C19_Witness ==
    /\ op = "prev_grapheme"
    /\ frame.pc = "returned"
    /\ steps > GRAPHEME_MAX_BACKTRACK


\* r is p plus the bytes of one or more successive decodes.
DecodeSum(t, len, p, r) ==
    /\ r > p
    /\ r <= len
    /\ DecodeJump(t, len, p, StepsTo(t, len, p, r, 1, r - p)) = r

\* C21: for 0 <= offset < L utflite_next_grapheme returns r with
\* offset < r <= L, r is offset plus the bytes consumed by successive decodes
\* and is not below the next character, and no index at or above L is read;
\* for a null text, a negative offset or an offset at or above L it returns L.
C21_NextGraphemeWithinBuffer ==
    op = "next_grapheme" =>
        LET L == Len(text) IN
        /\ \A i \in frame.reads : i >= 0 /\ i < L
        /\ frame.pc = "returned" =>
            /\ utflite_next_grapheme(NULL, L, arg) = L
            /\ IF arg >= 0 /\ arg < L
               THEN /\ arg < result
                    /\ result <= L
                    /\ DecodeSum(text, L, arg, result)
                    /\ result >= utflite_next_char(text, L, arg).offset
               ELSE result = L /\ frame.reads = {}

\* C21 witness: a call made at the first byte of a three-byte sequence cut
\* short by the end of the buffer read the last byte and returned its offset.
C21_Witness ==
    /\ op = "next_grapheme"
    /\ frame.pc = "returned"
    /\ Len(text) >= 3
    /\ ByteAt(text, Len(text) - 2) = \hE4
    /\ ByteAt(text, Len(text) - 1) = \hB8
    /\ arg = Len(text) - 2
    /\ frame.reads = {Len(text) - 2, Len(text) - 1}
    /\ result = Len(text) - 1

---------------------------------------------------------------------------
(* is_grapheme_break on its own. *)

\* The largest count of regional indicators passed to is_grapheme_break.
MaxRiCount == 3

\* One codepoint of every category, of both InCB classes and of
\* Extended_Pictographic.
BreakSamples ==
    { SampleOther, SampleCR, SampleLF, SampleControl, SampleExtend, SampleZWJ,
      SampleRI, SamplePrepend, SampleSpacingMark, SampleL, SampleV, SampleT,
      SampleLV, SampleLVT, SampleExtPict, SampleConsonant, SampleLinker }

\* The arguments of one call: the category of the previous codepoint and the
\* three states of the scan in frame, the current codepoint in codepoint.
InitBreak ==
    /\ codepoint \in BreakSamples
    /\ frame \in [prev_prop : GCB_OTHER .. GCB_LVT,
                  curr_prop : {get_gcb(codepoint)},
                  ri_count : 0 .. MaxRiCount,
                  in_ext_pict : {0, 1},
                  incb_state : {0, 1, 2}]
    /\ text = <<>>
    /\ offset = 0
    /\ op = "init"
    /\ arg = 0
    /\ start = 0
    /\ steps = 0
    /\ length = 0
    /\ bytes = 0
    /\ reads = {}
    /\ buffer = <<>>
    /\ before = <<>>
    /\ valid = 1
    /\ error_offset = NoOffset
    /\ result = 0

\* result = is_grapheme_break(prev_prop, curr_prop, ri_count, in_ext_pict,
\*                            curr_cp, incb_state)
IsGraphemeBreak ==
    /\ op = "init"
    /\ op' = "is_grapheme_break"
    /\ result' = is_grapheme_break(frame.prev_prop, frame.curr_prop, frame.ri_count,
                                   frame.in_ext_pict, codepoint, frame.incb_state)
    /\ UNCHANGED <<text, offset, arg, start, steps, length, codepoint, bytes,
                   reads, buffer, before, valid, error_offset, frame>>

NextBreak == IsGraphemeBreak

SpecBreak == InitBreak /\ [][NextBreak]_vars

\* Control, CR and LF.
ControlLike == {GCB_CONTROL, GCB_CR, GCB_LF}

\* C22: CR before LF is never split; every other pair with Control, CR or
\* LF on either side is split, whatever the other category is (Extend, ZWJ,
\* SpacingMark after it, Prepend before it) and whatever the RI count, the
\* Extended_Pictographic flag and the InCB state are.
C22_ControlBreaksFirst ==
    op = "is_grapheme_break" =>
        IF frame.prev_prop = GCB_CR /\ frame.curr_prop = GCB_LF
        THEN result = 0
        ELSE (frame.prev_prop \in ControlLike \/ frame.curr_prop \in ControlLike)
                 => result = 1

\* C22 witness: a boundary was reported between a Control and an Extend
\* codepoint with the ExtPict flag set and the InCB state at 2.
C22_Witness ==
    /\ op = "is_grapheme_break"
    /\ frame.prev_prop = GCB_CONTROL
    /\ frame.curr_prop = GCB_EXTEND
    /\ frame.in_ext_pict = 1
    /\ frame.incb_state = 2
    /\ result = 1

---------------------------------------------------------------------------
(* One scan of utflite_next_grapheme over Indic and emoji sequences, pass
   by pass. *)

\* The number of codepoints of a scanned buffer.
MaxScan == 3

\* A virama whose entry of GCB_RANGES the search of get_gcb does not find,
\* and an emoji modifier, which is both Extend and in the double-width table.
SampleTirhutaLinker == \h114C2
SampleModifier == \h1F3FB

ScanSamples ==
    { SampleOther, SampleExtend, SampleZWJ, SampleExtPict, SampleConsonant,
      SampleLinker, SampleTirhutaLinker, SampleModifier, SampleSpacingMark }

\* consonant Extend linker ZWJ consonant, and emoji Extend ZWJ emoji
LongConjunct ==
    EncodeCp(SampleConsonant) \o EncodeCp(SampleExtend) \o EncodeCp(SampleLinker)
        \o EncodeCp(SampleZWJ) \o EncodeCp(SampleConsonant)

LongEmoji ==
    EncodeCp(SampleExtPict) \o EncodeCp(SampleExtend) \o EncodeCp(SampleZWJ)
        \o EncodeCp(SampleExtPict)

ScanTexts ==
    ChunkTexts({EncodeCp(cp) : cp \in ScanSamples}, MaxScan)
        \cup {LongConjunct, LongEmoji}

InitScan ==
    /\ text \in ScanTexts
    /\ offset = 0
    /\ op = "init"
    /\ arg = 0
    /\ start = 0
    /\ steps = 0
    /\ length = 0
    /\ codepoint = 0
    /\ bytes = 0
    /\ reads = {}
    /\ buffer = <<>>
    /\ before = <<>>
    /\ valid = 1
    /\ error_offset = NoOffset
    /\ result = 0
    /\ frame = NoFrame

NextScan == NextGraphemeEnter \/ NextGraphemeWhile

SpecScan == InitScan /\ [][NextScan]_vars

\* The scan is about to decide on the codepoint at next_offset.
AtDecision ==
    /\ op = "next_grapheme"
    /\ frame.pc = "while"
    /\ frame.s.next_offset < frame.length

\* The codepoints the scan has consumed: those from its offset up to
\* next_offset.
Consumed == CodepointsFrom(text, frame.s.next_offset, arg)

\* c ends with a consonant followed only by linkers, Extend and ZWJ, with at
\* least one linker.
ConjunctPending(c) ==
    \E j \in 1 .. Len(c) :
        /\ Consonant(c, j)
        /\ \A k \in j + 1 .. Len(c) :
               ~Consonant(c, k) /\ (Linker(c, k) \/ IncbExtend(c, k))
        /\ \E k \in j + 1 .. Len(c) : Linker(c, k)

\* The boundaries that iterating utflite_next_grapheme from off reports.
RECURSIVE EngineBoundaries(_, _)
EngineBoundaries(t, off) ==
    IF off >= Len(t) THEN {off}
    ELSE {off} \cup EngineBoundaries(t, utflite_next_grapheme(t, Len(t), off))

\* The tri-state is 0, 1 or 2, and it is 2 exactly when a conjunct is
\* pending in the codepoints consumed.
TriStateTracksConjunct ==
    AtDecision =>
        /\ frame.s.incb_state \in {0, 1, 2}
        /\ frame.s.incb_state = 2 <=> ConjunctPending(Consumed)

\* No boundary stands in front of a consonant that follows a pending
\* conjunct.
ConjunctUnbroken ==
    (op = "next_grapheme" /\ frame.pc = "returned" /\ arg = 0) =>
        LET c == CodepointsFrom(text, Len(text), 0) IN
        \A i \in 2 .. Len(c) :
            (Consonant(c, i) /\ ConjunctPending(SubSeq(c, 1, i - 1)))
                => c[i].at \notin EngineBoundaries(text, 0)

\* C23: the tri-state of a scan is in {0,1,2} and is 2 exactly when the
\* codepoints consumed end with a consonant followed only by linkers, Extend
\* and ZWJ with at least one linker; consonant, linker, consonant (with
\* Extend and ZWJ between) has no boundary before the second consonant.
C23_ConjunctState == TriStateTracksConjunct /\ ConjunctUnbroken

\* C23 witness: in consonant, U+114C2, consonant the scan that starts at the
\* linker returned the offset of the second consonant.
C23_ConjunctSplit ==
    /\ text = EncodeCp(SampleConsonant) \o EncodeCp(SampleTirhutaLinker)
                  \o EncodeCp(SampleConsonant)
    /\ op = "next_grapheme"
    /\ frame.pc = "returned"
    /\ arg = 3
    /\ result = 7


\* The flag a scan should carry over the codepoints c: the last codepoint
\* that is Extended_Pictographic or is neither Extend nor ZWJ is
\* Extended_Pictographic.
PictographicPending(c) ==
    LET marks == {j \in 1 .. Len(c) : ExtPict(c, j) \/ ~IncbExtend(c, j)}
    IN marks # {} /\ ExtPict(c, Largest(marks))

\* The codepoint a scan at a decision point decides on, and its category.
CurrCp == DecodeAt(text, frame.length, frame.s.next_offset).codepoint
CurrProp == get_gcb(CurrCp)

\* The pass found no boundary in front of the codepoint and consumed it.
Consumes ==
    /\ AtDecision
    /\ frame'.pc = "while"
    /\ frame'.s.next_offset > frame.s.next_offset

\* The pass returned the offset of the codepoint: a boundary in front of it.
Splits ==
    /\ AtDecision
    /\ frame'.pc = "returned"
    /\ result' = frame.s.next_offset

\* A rule in front of rule 11 keeps the codepoint in the cluster.
KeptBeforeRule11 ==
    \/ CurrProp \in {GCB_EXTEND, GCB_ZWJ, GCB_SPACING_MARK}
    \/ frame.s.prev_prop = GCB_PREPEND
    \/ frame.s.prev_prop = GCB_L /\ CurrProp \in {GCB_L, GCB_V, GCB_LV, GCB_LVT}
    \/ frame.s.prev_prop \in {GCB_LV, GCB_V} /\ CurrProp \in {GCB_V, GCB_T}
    \/ frame.s.prev_prop \in {GCB_LVT, GCB_T} /\ CurrProp = GCB_T
    \/ frame.s.incb_state = 2 /\ is_incb_consonant(CurrCp) # 0

\* The flag is set exactly when a pictographic is pending in the codepoints
\* consumed.
FlagTracksPictographic ==
    AtDecision => (frame.s.in_ext_pict # 0 <=> PictographicPending(Consumed))

\* Rule 11 keeps a pictographic only with the flag set and a ZWJ in front.
Rule11OnlyAfterZwj ==
    (Consumes /\ is_extended_pictographic(CurrCp) # 0 /\ ~KeptBeforeRule11)
        => (frame.s.in_ext_pict # 0 /\ frame.s.prev_prop = GCB_ZWJ)

\* A ZWJ in front of a pictographic, with no pictographic pending.
ZwjWithoutPictographic ==
    /\ AtDecision
    /\ frame.s.prev_prop = GCB_ZWJ
    /\ is_extended_pictographic(CurrCp) # 0
    /\ ~PictographicPending(Consumed)

---------------------------------------------------------------------------
(* The category of one codepoint *)

\* Precomposed Hangul syllables get LV or LVT from their index alone.
HangulByIndex ==
    (op = "get_gcb" /\ IsHangulSyllable(codepoint))
        => result = (IF (codepoint - HANGUL_SBASE) % HANGUL_TCOUNT = 0
                     THEN GCB_LV ELSE GCB_LVT)

\* Any other codepoint gets the category of an entry that contains it, and
\* Other when none does.
TableByContainment ==
    (op = "get_gcb" /\ ~IsHangulSyllable(codepoint))
        => IF GcbCategories(codepoint) = {} THEN result = GCB_OTHER
           ELSE result \in GcbCategories(codepoint)

\* C25: get_gcb gives every codepoint of AC00..D7A3 the category LV when
\* its index is a multiple of 28 and LVT otherwise; every other codepoint
\* gets the category of the table entry that contains it, and Other when no
\* entry contains it.
C25_GcbHangulThenTable == HangulByIndex /\ TableByContainment

\* C25 witness: U+114C2 lies in the entry 114BF..114C3 of the GCB table and
\* get_gcb returned GCB_OTHER for it.
C25_LinkerMissed ==
    /\ op = "get_gcb"
    /\ codepoint = SampleTirhutaLinker
    /\ GcbCategories(codepoint) = {GCB_EXTEND}
    /\ result = GCB_OTHER

\* The syllable U+AC1C, one block of 28 after the first, is LV.
HangulSecondBlock ==
    /\ op = "get_gcb"
    /\ codepoint = HANGUL_SBASE + HANGUL_TCOUNT
    /\ result = GCB_LV


---------------------------------------------------------------------------
(* Hangul composition *)

HangulCategories == {GCB_L, GCB_V, GCB_T, GCB_LV, GCB_LVT}

\* The pairs of Hangul categories that compose one syllable block.
Composes(p, q) ==
    \/ p = GCB_L /\ q \in {GCB_L, GCB_V, GCB_LV, GCB_LVT}
    \/ p \in {GCB_LV, GCB_V} /\ q \in {GCB_V, GCB_T}
    \/ p \in {GCB_LVT, GCB_T} /\ q = GCB_T

\* The codepoints the call of utflite_next_grapheme began with.
Called == CodepointsFrom(text, Len(text), arg)

HangulPairCalled ==
    /\ op = "next_grapheme"
    /\ Len(Called) >= 2
    /\ Gcb(Called, 1) \in HangulCategories
    /\ Gcb(Called, 2) \in HangulCategories

\* C26: utflite_next_grapheme called at a Hangul codepoint that another
\* Hangul codepoint follows returns the offset of the second exactly when
\* the pair is none of L x (L | V | LV | LVT), (LV | V) x (V | T),
\* (LVT | T) x T, and an offset beyond it otherwise.
C26_HangulComposition ==
    HangulPairCalled =>
        IF Composes(Gcb(Called, 1), Gcb(Called, 2))
        THEN result > Called[2].at
        ELSE result = Called[2].at

\* C26 witness: LV V was kept whole and, in another call, LVT V was split.
C26_Witness ==
    /\ HangulPairCalled
    /\ arg = 0
    /\ \/ /\ text = EncodeCp(SampleLV) \o EncodeCp(SampleV)
          /\ result = 6
       \/ /\ text = EncodeCp(SampleLVT) \o EncodeCp(SampleV)
          /\ result = 3


---------------------------------------------------------------------------
(* The reach of the forward rescan *)

\* utflite_prev_grapheme has chosen its anchor and starts to scan forward.
AtAnchor ==
    /\ op = "prev_grapheme"
    /\ frame.pc = "rescan"
    /\ frame.curr = frame.scan_start

\* The decode steps that lead from the anchor to the offset of the call.
RescanSteps ==
    StepsTo(text, arg, frame.scan_start, arg, 0, arg - frame.scan_start)

\* The characters the rewind moves back over: the one in front of the
\* offset, then one for each unit of the backtrack counter.
MaxRewind == GRAPHEME_MAX_BACKTRACK + 1

StrayRescan ==
    /\ AtAnchor
    /\ text = StrayRun(MaxStray)
    /\ RescanSteps > MaxRewind


---------------------------------------------------------------------------
(* The truncation example *)

\* utflite_truncate(text, 8, 5) for two CJK glyphs followed by CD.
GlyphsTruncated ==
    /\ op = "truncate"
    /\ text = GlyphsThenLetters
    /\ arg = 5

\* The offsets that lie inside the byte sequence of a glyph of the buffer.
InsideGlyph == (0 .. Len(text)) \ NextCharBoundaries(text, Len(text), 0)

\* C28 as stated: the buffer is cut after exactly one CJK glyph, at offset 3.
C28_CutAfterOneGlyph ==
    GlyphsTruncated => (result = 3 /\ result \notin InsideGlyph)

\* C28: with 5 columns the 8-byte buffer of two 2-column CJK glyphs and CD
\* is cut at offset 7, after both glyphs and C (2 + 2 + 1 columns), not
\* inside a glyph; the 10-byte buffer of the README, the same glyphs with AB
\* in front, is cut at offset 5, after exactly one glyph.
C28_CutAfterFiveColumns ==
    /\ GlyphsTruncated =>
          /\ result = 7
          /\ result \notin InsideGlyph
          /\ utflite_string_width(text, result) = 5
    /\ (op = "truncate" /\ text = ReadmeTruncateText /\ arg = 5) =>
          /\ result = 5
          /\ result \notin InsideGlyph

\* C28 witness: the call for the two glyphs and CD returned 7, and offset 3
\* is a boundary of the buffer that was not returned.
C28_Witness ==
    /\ GlyphsTruncated
    /\ result = 7
    /\ 3 \notin InsideGlyph
    /\ utflite_string_width(text, Len(text)) = 6


---------------------------------------------------------------------------
(* Backward navigation against forward navigation *)

\* Buffers of every category, and long clusters on both sides of the
\* backtrack limit.
InitInverse ==
    /\ text \in GraphemeTexts \cup LongClusterTexts
    /\ offset = 0
    /\ op = "init"
    /\ arg = 0
    /\ start = 0
    /\ steps = 0
    /\ length = 0
    /\ codepoint = 0
    /\ bytes = 0
    /\ reads = {}
    /\ buffer = <<>>
    /\ before = <<>>
    /\ valid = 1
    /\ error_offset = NoOffset
    /\ result = 0
    /\ frame = NoFrame

SpecInverse == InitInverse /\ [][NextBacktrack]_vars

\* The number of codepoints of a buffer.
CodepointsOf(t) == StepsTo(t, Len(t), 0, Len(t), 0, Len(t))

\* utflite_prev_grapheme was called on a well-formed buffer of at most 128
\* codepoints, at the start of a codepoint or at the end.
InverseCalled ==
    /\ op = "prev_grapheme"
    /\ WellFormed(text)
    /\ CodepointsOf(text) <= GRAPHEME_MAX_BACKTRACK
    /\ arg >= 1
    /\ arg = Len(text) \/ text[arg + 1] \notin \h80 .. \hBF

\* The boundaries b0 = 0 < b1 < ... < bk = L of iterating
\* utflite_next_grapheme from 0.
ForwardBoundaries == EngineBoundaries(text, 0)

\* C29: in a well-formed buffer of at most 128 codepoints
\* utflite_prev_grapheme, called at a cluster boundary b_i with i >= 1 or at
\* a codepoint offset inside the cluster that ends at b_i, returns b_(i-1),
\* the last of the boundaries of iterating utflite_next_grapheme from 0 that
\* lies before the offset.
C29_PrevInvertsNext ==
    InverseCalled =>
        result = Largest({b \in ForwardBoundaries : b < arg})

\* C29 witness: in a buffer of 'a', 'e' and 126 combining marks, 128
\* codepoints, the call made inside the long cluster, in front of its last
\* mark, returned the start of the cluster.
C29_Witness ==
    /\ InverseCalled
    /\ text = LongCluster(1, GRAPHEME_MAX_BACKTRACK - 2)
    /\ arg = Len(text) - 2
    /\ arg \notin ForwardBoundaries
    /\ result = 1


---------------------------------------------------------------------------
(* Backward progress *)

\* The offset n calls of utflite_prev_grapheme lead to from off, each made
\* at the offset the one before returned.
RECURSIVE PrevChain(_, _, _)
PrevChain(t, off, n) ==
    IF n = 0 \/ off = 0 THEN off
    ELSE PrevChain(t, utflite_prev_grapheme(t, off), n - 1)

\* C30: whatever the bytes of the buffer, utflite_prev_grapheme called at an
\* offset of at least 1 reads only indexes from 0 to offset - 1 and returns
\* r with 0 <= r < offset, so that offset calls, each at the result of the
\* one before, lead to 0; called at offset 0 or below it reads nothing and
\* returns 0.
C30_PrevGraphemeProgress ==
    op = "prev_grapheme" =>
        /\ \A i \in frame.reads : i >= 0 /\ i < arg
        /\ frame.pc = "returned" =>
              IF arg >= 1
              THEN /\ 0 <= result
                   /\ result < arg
                   /\ result = utflite_prev_grapheme(text, arg)
                   /\ Len(text) < GRAPHEME_MAX_BACKTRACK
                          => PrevChain(text, arg, arg) = 0
              ELSE result = 0 /\ frame.reads = {}

\* C30 witness: the call made in front of the last byte of a three-byte
\* sequence that follows a letter read the three bytes in front of the
\* offset, not the one at it, and returned the offset of the byte before.
C30_Witness ==
    /\ op = "prev_grapheme"
    /\ frame.pc = "returned"
    /\ text = <<\h41, \hE4, \hB8, \hAD>>
    /\ arg = 3
    /\ frame.reads = {0, 1, 2}
    /\ result = 2

=============================================================================
